---- MODULE Spec2Model ----
(***************************************************************************)
(* A model of the scEmacs editing core (src/sc_Editor.c): the gap buffer,  *)
(* the mark ring, the global kill ring, the slab-based undo log, the       *)
(* command dispatcher with its numeric prefix, the selection, and the      *)
(* query-replace session.                                                  *)
(*                                                                         *)
(* Memory is modelled physically: a buffer is an array of bytes indexed    *)
(* from 0 with a gap, pointers are offsets from the start of the block     *)
(* they point into.  Bytes are their numeric values (97 is 'a', 32 is a    *)
(* space, 10 a newline, 195 169 the two-byte UTF-8 sequence for e-acute);  *)
(* a byte that was never written reads as 0.                               *)
(*                                                                         *)
(* The program state is threaded through the operators as one record W     *)
(* with the fields bufs, panes, kr and g; every operator named after a C   *)
(* function takes the state before the call and yields the state after it. *)
(***************************************************************************)
EXTENDS Integers, Sequences, FiniteSets, TLC

VARIABLES bufs, panes, kr, g, h

vars == <<bufs, panes, kr, g, h>>

(***************************************************************************)
(* Bounds of the exploration.                                              *)
(***************************************************************************)
\* Number of commands and key events explored from the initial state.
MaxOps == 3

\* The number of key sequences a behaviour of SpecUndo handles.
MaxUndoOps == 5

\* The number of keys and answers a behaviour of SpecQREP handles.
MaxQREPOps == 7

\* The number of key sequences a behaviour of SpecTyping handles.
MaxTypingOps == 8

\* The number of key sequences a behaviour of SpecKill handles.
MaxKillOps == 5

\* The number of key sequences a behaviour of SpecReadOnly handles.
MaxReadOnlyOps == 3

\* Key sequences in a run of SpecISearch.
MaxISearchOps == 8

\* Keys and key sequences in a run of SpecAbort.
MaxAbortOps == 6

\* Key sequences and answers in a run of SpecExec.
MaxExecOps == 5

\* Keys and focus events in a run of SpecFocus, and the frames it makes.
MaxFocusOps == 6
MaxFrames == 2

\* Keys and window events in a run of SpecPanes.
MaxPaneOps == 5

\* The steps of a run on the frames, panes and buffers, and the buffer
\* records the run may allocate.
MaxWinOps == 5

MaxBufs == 3

\* The characters a row of a window holds (FrameP->RowChars).
RowChars == 3

\* The steps of a run of inserts seen from another pane, and the bytes of
\* the file it starts on.
MaxOtherOps == 2

MaxText == 4

\* The gap slack added by a reallocation and by reading a file.  The
\* program uses 512 (ED_GAPEXTRAEXPAND); it is scaled down here so that
\* gap expansion happens within a few insertions.
ED_GAPEXTRAEXPAND == 2

\* The size of a buffer created without a file.  The program uses 8192
\* (ED_BUFINITLEN); scaled down like the gap slack.
ED_BUFINITLEN == 4

\* Initial size and growth step of the two kill-ring stores.  The program
\* uses 128 for ED_KRTOPINITLEN, ED_KRTOPEXTRA, ED_KRRESTINITLEN and
\* ED_KRRESTEXTRA alike; one scaled value stands for the four.
ED_KRTOPINITLEN == 2

\* Initial size and growth step of an undo slab.  The program uses 8192 for
\* ED_UNDOINITLEN and ED_UNDOEXTRALEN alike; one scaled value stands for the
\* two.  It leaves room for every block the short runs write, and is small
\* enough for the runs that fill slabs.
ED_UNDOINITLEN == 512

(***************************************************************************)
(* Program constants.                                                      *)
(***************************************************************************)
ED_MARKRINGCOUNT == 16
ED_MARKRINGMASK == ED_MARKRINGCOUNT - 1
ED_KILLRINGCOUNT == 16
ED_KILLRINGMASK == ED_KILLRINGCOUNT - 1
ED_KRTOPEXTRA == ED_KRTOPINITLEN
ED_KRRESTINITLEN == ED_KRTOPINITLEN
ED_KRRESTEXTRA == ED_KRTOPINITLEN
ED_UNDOEXTRALEN == ED_UNDOINITLEN
ED_UNDOGCSLABCOUNT == 16
ED_UNDOGCL0SLABCOUNT == 12
ED_UNDOGCL1SLABCOUNT == 8
ED_UNDOGCL2MEMMAX == 120 * 1024
ED_UNDO_DATASIZE == 35
\* sizeof(ED_USlabRecord), sizeof(ED_UBlockRecord), offsetof(ED_UBlockRecord, Data)
SizeofUSlabRecord == 32
SizeofUBlockRecord == 16
OffsetofUBlockData == 13

NULL == 0

(***************************************************************************)
(* Bytes and byte arrays.                                                  *)
(***************************************************************************)
Min(a, b) == IF a < b THEN a ELSE b
Max(a, b) == IF a < b THEN b ELSE a

\* malloc(n): n bytes, none of them written yet.
Malloc(n) == [i \in 0 .. n - 1 |-> 0]

\* realloc(mem, n) for n at least the old size: the old bytes, then new ones.
Realloc(mem, n) == [i \in 0 .. n - 1 |-> IF i \in DOMAIN mem THEN mem[i] ELSE 0]

\* *(mem + i).  A read outside the block returns whatever lies there: 0 here,
\* a value no key and no file puts into a buffer.
MemGet(mem, i) == IF i \in DOMAIN mem THEN mem[i] ELSE 0

\* memmove(mem + dst, mem + src, n); writes outside the block are not kept.
MemMove(mem, dst, src, n) ==
    [i \in DOMAIN mem |->
        IF dst <= i /\ i < dst + n THEN MemGet(mem, src + (i - dst)) ELSE mem[i]]

\* memcpy(mem + dst, data, Len(data)) where data is a byte string
MemWrite(mem, dst, data) ==
    LET n == Len(data)
    IN  [i \in DOMAIN mem |->
            IF dst <= i /\ i < dst + n THEN data[i - dst + 1] ELSE mem[i]]

\* The n bytes at mem + src, as a byte string.
MemRead(mem, src, n) == [i \in 1 .. n |-> MemGet(mem, src + i - 1)]

\* ED_BufferGetUTF8Len
ED_BufferGetUTF8Len(C) ==
    IF C <= 127 THEN 1
    ELSE IF 192 <= C /\ C < 224 THEN 2
    ELSE IF 224 <= C /\ C < 240 THEN 3
    ELSE IF 240 <= C /\ C < 248 THEN 4
    ELSE 1

\* ED_BufferCIsAlpha
ED_BufferCIsAlpha(C) ==
    IF C < 48 THEN FALSE
    ELSE IF C < 58 THEN TRUE
    ELSE IF C < 65 THEN FALSE
    ELSE IF C < 91 THEN TRUE
    ELSE IF C < 97 THEN FALSE
    ELSE IF C < 123 THEN TRUE
    ELSE IF C < 128 THEN FALSE
    ELSE TRUE

\* ED_BUFFERISMIDUTF8: (C & 0xC0) == 0x80
ED_BUFFERISMIDUTF8(C) == 128 <= C /\ C < 192

\* The statements of a function in order: Rest is what follows the
\* statement that left Value.
Then(Value, Rest(_)) == Rest(Value)

(***************************************************************************)
(* The gap buffer.                                                         *)
(***************************************************************************)
\* ED_BufferPosToPtr: the offset in memory of the byte at position Pos.
ED_BufferPosToPtr(B, Pos) ==
    IF Pos >= B.GapStartP THEN Pos + (B.GapEndP - B.GapStartP) ELSE Pos

\* The byte at position Pos (the program's *ED_BufferPosToPtr(BufP, Pos)).
ByteAt(B, Pos) ==
    MemGet(B.Mem, ED_BufferPosToPtr(B, Pos))

\* The text of the buffer: the bytes at the positions 0 .. LastPos - 1.
Text(B) ==
    [I \in 1 .. B.LastPos |-> ByteAt(B, I - 1)]

\* ED_BufferPlaceGap
ED_BufferPlaceGap(B, Offset, Len0) ==
    LET PLen == IF Len0 < 0 THEN 0 ELSE Len0
        OldGapLen == B.GapEndP - B.GapStartP
        NewGapStartP == Offset
        GapMove == NewGapStartP - B.GapStartP
    IN  IF OldGapLen < PLen
        THEN LET NewGapLen == PLen + ED_GAPEXTRAEXPAND
                 NewMemLen == B.BufEndP + (NewGapLen - OldGapLen)
                 M0 == Realloc(B.Mem, NewMemLen)
                 M1 == IF GapMove = 0
                       THEN MemMove(M0, B.GapEndP + (NewGapLen - OldGapLen), B.GapEndP,
                                    B.BufEndP - B.GapEndP)
                       ELSE IF GapMove < 0
                       THEN MemMove(
                                MemMove(M0, B.GapEndP + (NewGapLen - OldGapLen), B.GapEndP,
                                        B.BufEndP - B.GapEndP),
                                NewGapStartP + NewGapLen, NewGapStartP, -GapMove)
                       ELSE MemMove(
                                MemMove(M0, B.GapEndP + GapMove + (NewGapLen - OldGapLen),
                                        B.GapEndP + GapMove,
                                        B.BufEndP - (B.GapEndP + GapMove)),
                                B.GapEndP - OldGapLen, B.GapEndP, GapMove)
             IN  [B EXCEPT !.Mem = M1,
                           !.GapStartP = NewGapStartP,
                           !.GapEndP = NewGapStartP + NewGapLen,
                           !.BufEndP = NewMemLen]
        ELSE IF NewGapStartP # B.GapStartP
        THEN LET M1 == IF GapMove < 0
                       THEN MemMove(B.Mem, NewGapStartP + OldGapLen, NewGapStartP, -GapMove)
                       ELSE MemMove(B.Mem, B.GapEndP - OldGapLen, B.GapEndP, GapMove)
             IN  [B EXCEPT !.Mem = M1,
                           !.GapStartP = NewGapStartP,
                           !.GapEndP = NewGapStartP + OldGapLen]
        ELSE B

(***************************************************************************)
(* The mark ring of a buffer.                                              *)
(***************************************************************************)
\* (x - n) & ED_MARKRINGMASK
MarkWrap(x) == x % ED_MARKRINGCOUNT

\* ED_BufferPushMark
ED_BufferPushMark(B, Pos) ==
    IF B.MarkRingArr[B.MarkRingIndex] # Pos
    THEN LET I == MarkWrap(B.MarkRingIndex + 1)
         IN  [B EXCEPT !.MarkRingIndex = I, !.MarkRingArr[I] = Pos]
    ELSE B

\* ED_BufferGetMark: the mark returned, and the buffer after the call.
ED_BufferGetMarkPos(B) == B.MarkRingArr[B.MarkRingIndex]

ED_BufferGetMark(B, DoPop) ==
    IF DoPop THEN [B EXCEPT !.MarkRingIndex = MarkWrap(B.MarkRingIndex - 1)] ELSE B

\* ED_BufferGetDiffMark: the loop from trip I on; yields <<MarkPos, MarkRingIndex>>.
RECURSIVE GetDiffMarkLoop(_, _, _, _)
GetDiffMarkLoop(B, NotPos, I, Index) ==
    LET NewIndex == MarkWrap(Index - I)
        MarkPos == B.MarkRingArr[NewIndex]
    IN  IF MarkPos # NotPos \/ I + 1 >= ED_MARKRINGCOUNT
        THEN <<MarkPos, NewIndex>>
        ELSE GetDiffMarkLoop(B, NotPos, I + 1, NewIndex)

ED_BufferGetDiffMarkPos(B, NotPos) == GetDiffMarkLoop(B, NotPos, 0, B.MarkRingIndex)[1]

ED_BufferGetDiffMark(B, NotPos) ==
    [B EXCEPT !.MarkRingIndex = GetDiffMarkLoop(B, NotPos, 0, B.MarkRingIndex)[2]]

\* ED_BufferSwapMark: the old mark returned, and the buffer after the call.
ED_BufferSwapMarkPos(B, NewPos) ==
    IF B.MarkRingArr[B.MarkRingIndex] = NewPos
    THEN B.MarkRingArr[MarkWrap(B.MarkRingIndex - 1)]
    ELSE B.MarkRingArr[B.MarkRingIndex]

ED_BufferSwapMark(B, NewPos) ==
    LET I == IF B.MarkRingArr[B.MarkRingIndex] = NewPos
             THEN MarkWrap(B.MarkRingIndex - 1)
             ELSE B.MarkRingIndex
    IN  [B EXCEPT !.MarkRingIndex = I, !.MarkRingArr[I] = NewPos]

\* ED_BufferUpdateMark
ED_BufferUpdateMark(B, Pos, Delta) ==
    [B EXCEPT !.MarkRingArr =
        [I \in 0 .. ED_MARKRINGCOUNT - 1 |->
            IF B.MarkRingArr[I] >= Pos
            THEN IF B.MarkRingArr[I] + Delta < Pos THEN Pos ELSE B.MarkRingArr[I] + Delta
            ELSE B.MarkRingArr[I]]]

(***************************************************************************)
(* The X selections (PRIMARY and CLIPBOARD).  The X server is taken to     *)
(* grant every request for ownership.                                      *)
(***************************************************************************)
\* ED_XSelSetPrimary
ED_XSelSetPrimary(W, PaneP) ==
    LET Cur == W.panes[PaneP].CursorPos
    IN  [W EXCEPT !.g.PrimaryOwn = 1,
                  !.g.PrimaryBufP = W.panes[PaneP].BufP,
                  !.g.PrimaryPos = IF Cur < W.g.SelMarkPos THEN Cur ELSE W.g.SelMarkPos,
                  !.g.PrimaryLen = IF Cur < W.g.SelMarkPos
                                   THEN W.g.SelMarkPos - Cur
                                   ELSE Cur - W.g.SelMarkPos]

\* ED_XSelReleasePrimary
ED_XSelReleasePrimary(W) ==
    IF W.g.PrimaryBufP # NULL
    THEN [W EXCEPT !.g.PrimaryBufP = NULL, !.g.PrimaryOwn = 0]
    ELSE W

\* ED_XSelAlterPrimary
ED_XSelAlterPrimary(W, BufP, Pos, ALen) ==
    IF BufP # W.g.PrimaryBufP \/ ALen = 0
    THEN W
    ELSE IF Pos <= W.g.PrimaryPos
    THEN LET W1 == [W EXCEPT !.g.PrimaryPos = W.g.PrimaryPos + ALen]
         IN  IF W1.g.PrimaryPos < Pos THEN ED_XSelReleasePrimary(W1) ELSE W1
    ELSE IF Pos < W.g.PrimaryPos + W.g.PrimaryLen
    THEN ED_XSelReleasePrimary(W)
    ELSE W

\* ED_XSelSetClip
ED_XSelSetClip(W) ==
    LET W1 == IF W.g.ClipOwn = 0 THEN [W EXCEPT !.g.ClipOwn = 1] ELSE W
    IN  IF W1.g.PrimaryOwn = 0
        THEN [W1 EXCEPT !.g.PrimaryOwn = 1, !.g.PrimaryBufP = NULL]
        ELSE W1

(***************************************************************************)
(* The kill ring.                                                          *)
(***************************************************************************)
KillWrap(x) == x % ED_KILLRINGCOUNT

\* ED_KillRingInit
ED_KillRingInit ==
    [TopP |-> Malloc(ED_KRTOPINITLEN), TopLen |-> ED_KRTOPINITLEN,
     RestP |-> Malloc(ED_KRRESTINITLEN), RestLen |-> ED_KRRESTINITLEN,
     RestDataLen |-> 0, TopI |-> 0, YankI |-> KillWrap(0 - 1),
     EltArr |-> [I \in 0 .. ED_KILLRINGCOUNT - 1 |-> [Pos |-> 0, Len |-> 0]]]

\* ED_KillRingAppendTop
ED_KillRingAppendTop(K, Data) ==
    LET KEP == K.EltArr[K.TopI]
        DataLen == Len(Data)
        Slide == KEP.Pos + KEP.Len + DataLen > K.TopLen /\ KEP.Pos # 0
        \* after the slide, if any
        M1 == IF Slide THEN MemMove(K.TopP, 0, KEP.Pos, KEP.Len) ELSE K.TopP
        Pos1 == IF Slide THEN 0 ELSE KEP.Pos
        Grow == Pos1 + KEP.Len + DataLen > K.TopLen
        NewLen == IF Grow THEN KEP.Len + DataLen + ED_KRTOPEXTRA ELSE K.TopLen
        M2 == IF Grow THEN Realloc(M1, NewLen) ELSE M1
    IN  [K EXCEPT !.TopP = MemWrite(M2, Pos1 + KEP.Len, Data),
                  !.TopLen = NewLen,
                  !.EltArr[K.TopI] = [Pos |-> Pos1, Len |-> KEP.Len + DataLen]]

\* ED_KillRingPrependTop
ED_KillRingPrependTop(K, Data) ==
    LET KEP == K.EltArr[K.TopI]
        DataLen == Len(Data)
        Grow == KEP.Pos < DataLen /\ DataLen + KEP.Len > K.TopLen
        NewLen == IF Grow THEN DataLen + KEP.Len + ED_KRTOPEXTRA ELSE K.TopLen
        M1 == IF Grow THEN Realloc(K.TopP, NewLen) ELSE K.TopP
        M2 == IF KEP.Pos < DataLen
              THEN MemMove(M1, NewLen - KEP.Len, KEP.Pos, KEP.Len)
              ELSE M1
        Pos1 == IF KEP.Pos < DataLen THEN NewLen - KEP.Len ELSE KEP.Pos
    IN  [K EXCEPT !.TopP = MemWrite(M2, Pos1 - DataLen, Data),
                  !.TopLen = NewLen,
                  !.EltArr[K.TopI] = [Pos |-> Pos1 - DataLen, Len |-> KEP.Len + DataLen]]

\* ED_KillRingAdvanceTop
ED_KillRingAdvanceTop(K) ==
    LET TopKEP == K.EltArr[K.TopI]
        LastI == KillWrap(K.TopI + 1)
        LastKEP == K.EltArr[LastI]
        RestDataLen1 == IF LastKEP.Len # 0 THEN K.RestDataLen - LastKEP.Len ELSE K.RestDataLen
        NeedLen == RestDataLen1 + TopKEP.Len
        Grow == K.RestLen < NeedLen
        NewLen == IF Grow THEN NeedLen + ED_KRRESTEXTRA ELSE K.RestLen
        M1 == IF Grow THEN Realloc(K.RestP, NewLen) ELSE K.RestP
        M2 == MemMove(M1, TopKEP.Len, 0, RestDataLen1)
        M3 == MemWrite(M2, 0, MemRead(K.TopP, TopKEP.Pos, TopKEP.Len))
    IN  IF TopKEP.Len = 0
        THEN [K EXCEPT !.YankI = K.TopI]
        ELSE [K EXCEPT !.YankI = K.TopI,
                       !.RestP = M3,
                       !.RestLen = NewLen,
                       !.RestDataLen = RestDataLen1 + TopKEP.Len,
                       !.TopI = LastI,
                       !.EltArr = [I \in 0 .. ED_KILLRINGCOUNT - 1 |->
                            IF I = LastI THEN [Pos |-> 0, Len |-> 0]
                            ELSE IF I = K.TopI THEN [Pos |-> 0, Len |-> TopKEP.Len]
                            ELSE IF K.EltArr[I].Len # 0
                                 THEN [Pos |-> K.EltArr[I].Pos + TopKEP.Len,
                                       Len |-> K.EltArr[I].Len]
                                 ELSE K.EltArr[I]]]

\* ED_KillRingWriteTop
ED_KillRingWriteTop(K, Data) ==
    LET DataLen == Len(Data)
        Grow == K.TopLen < DataLen
        NewLen == IF Grow THEN DataLen + ED_KRTOPEXTRA ELSE K.TopLen
        M1 == IF Grow THEN Realloc(K.TopP, NewLen) ELSE K.TopP
    IN  [K EXCEPT !.YankI = K.TopI,
                  !.TopP = MemWrite(M1, 0, Data),
                  !.TopLen = NewLen,
                  !.EltArr[K.TopI] = [Pos |-> 0, Len |-> DataLen]]

\* ED_KillRingAdd with a new top entry for every kill.
ED_KillRingAdd_AlwaysNew(W, Data, OpForward) ==
    ED_XSelSetClip([W EXCEPT !.kr = ED_KillRingWriteTop(ED_KillRingAdvanceTop(W.kr), Data)])

\* ED_KillRingAdd
ED_KillRingAdd(W, Data, OpForward) ==
    LET K1 == IF (W.g.QRPaneP # NULL /\ W.g.QRLastCmd = "ED_QRKillCmd")
                 \/ W.g.CmdLastId = "ED_KillId"
              THEN IF OpForward
                   THEN ED_KillRingAppendTop(W.kr, Data)
                   ELSE ED_KillRingPrependTop(W.kr, Data)
              ELSE ED_KillRingWriteTop(ED_KillRingAdvanceTop(W.kr), Data)
    IN  ED_XSelSetClip([W EXCEPT !.kr = K1])

\* ED_KillRingYank with LoopForData = 1: the loop past empty entries.
RECURSIVE KillRingYankLoop(_, _, _, _)
KillRingYankLoop(K, YankI, Count, Inc) ==
    IF Count < ED_KILLRINGCOUNT /\ K.EltArr[YankI].Len = 0
    THEN KillRingYankLoop(K, KillWrap(YankI - Inc), Count + 1, Inc)
    ELSE YankI

\* ED_KillRingYank: the kill ring after the call.
ED_KillRingYank(K, PopCount) ==
    [K EXCEPT !.YankI = KillRingYankLoop(K, KillWrap(K.YankI - PopCount), 1,
                                         IF PopCount < 0 THEN -1 ELSE 1)]

\* The bytes an entry of the kill ring holds.
KillRingEntry(K, I) ==
    IF I = K.TopI
    THEN MemRead(K.TopP, K.EltArr[I].Pos, K.EltArr[I].Len)
    ELSE MemRead(K.RestP, K.EltArr[I].Pos, K.EltArr[I].Len)

\* ED_KillRingYank: the bytes *PP and *LenP designate after the call.
KillRingYankData(K) == KillRingEntry(K, K.YankI)

(***************************************************************************)
(* The undo log of a buffer: a list of slabs (FirstUSP .. LastUSP), each   *)
(* holding undo blocks at byte offsets.  A slab is a record                *)
(*   [Id, SlabSize, LastUBlock, Blocks]   with Blocks[offset] a block      *)
(*   [PrevUBlock, DataPos, DataLen, Flags, Data].                          *)
(* Block flags are the names of the ED_UB_ bits.  malloc is taken to       *)
(* succeed.                                                                *)
(***************************************************************************)
\* ED_FrameSetEchoS / ED_FrameSPrintEchoS: the echo line shows the message.
ED_FrameSetEchoS(W, Msg) == [W EXCEPT !.g.Echo = Msg]

\* BufP->LastUSP
LastUSP(B) == B.USlabs[Len(B.USlabs)]

\* Where a slab pointer points: the pairs <<buffer, index in its slab list>>.
SlabWhere(W, USP) ==
    UNION {{<<b, i>> : i \in {j \in 1 .. Len(W.bufs[b].USlabs) : W.bufs[b].USlabs[j].Id = USP}} :
              b \in DOMAIN W.bufs}

\* The slab a slab pointer designates; NULL if it was freed.
SlabAt(W, USP) ==
    IF SlabWhere(W, USP) = {} THEN NULL
    ELSE LET bi == CHOOSE x \in SlabWhere(W, USP) : TRUE IN W.bufs[bi[1]].USlabs[bi[2]]

\* USP->PrevUSP
PrevUSP(W, USP) ==
    LET bi == CHOOSE x \in SlabWhere(W, USP) : TRUE
    IN  IF bi[2] = 1 THEN NULL ELSE W.bufs[bi[1]].USlabs[bi[2] - 1].Id

\* ED_BufferAddNewUndoSlab
ED_BufferAddNewUndoSlab(W, BufP, Payload) ==
    LET Size == IF Payload = 0 THEN ED_UNDOINITLEN
                ELSE Max(Payload + ED_UNDOEXTRALEN, ED_UNDOINITLEN)
        USP == [Id |-> W.g.SlabSeq + 1, SlabSize |-> Size, LastUBlock |-> 0,
                Blocks |-> <<>>]
    IN  [W EXCEPT !.g.SlabSeq = W.g.SlabSeq + 1,
                  !.bufs[BufP].USlabs = Append(W.bufs[BufP].USlabs, USP),
                  !.bufs[BufP].USCount = W.bufs[BufP].USCount + 1,
                  !.bufs[BufP].USTotalSize = W.bufs[BufP].USTotalSize + Size]

\* ED_BufferInitUndo
ED_BufferInitUndo(W, BufP) ==
    ED_BufferAddNewUndoSlab(
        [W EXCEPT !.bufs[BufP].USlabs = <<>>,
                  !.bufs[BufP].USCount = 0,
                  !.bufs[BufP].USTotalSize = 0], BufP, 0)

\* ED_BufferKillUndoSlabs without the test of ED_UndoSlabP: the read head
\* stays where it was.
RECURSIVE ED_BufferKillUndoSlabs_KeepsHead(_, _, _)
ED_BufferKillUndoSlabs_KeepsHead(W, BufP, Count) ==
    LET B == W.bufs[BufP]
    IN  IF B.USlabs = <<>>
        THEN W
        ELSE LET USP == Head(B.USlabs)
                 W1 == [W EXCEPT !.bufs[BufP].USlabs = Tail(B.USlabs),
                                 !.bufs[BufP].USCount = B.USCount - 1,
                                 !.bufs[BufP].USTotalSize = B.USTotalSize - USP.SlabSize]
             IN  IF Count - 1 <= 0 THEN W1
                 ELSE ED_BufferKillUndoSlabs_KeepsHead(W1, BufP, Count - 1)

\* ED_BufferKillUndoSlabs
RECURSIVE ED_BufferKillUndoSlabs(_, _, _)
ED_BufferKillUndoSlabs(W, BufP, Count) ==
    LET B == W.bufs[BufP]
    IN  IF B.USlabs = <<>>
        THEN W
        ELSE LET USP == Head(B.USlabs)
                 W1 == [W EXCEPT !.bufs[BufP].USlabs = Tail(B.USlabs),
                                 !.bufs[BufP].USCount = B.USCount - 1,
                                 !.bufs[BufP].USTotalSize = B.USTotalSize - USP.SlabSize,
                                 !.g.UndoSlabP = IF W.g.UndoSlabP = USP.Id
                                                 THEN NULL ELSE W.g.UndoSlabP,
                                 !.g.UndoBlock = IF W.g.UndoSlabP = USP.Id
                                                 THEN 0 ELSE W.g.UndoBlock]
             IN  IF Count - 1 <= 0 THEN W1 ELSE ED_BufferKillUndoSlabs(W1, BufP, Count - 1)

\* ED_BufferGCUndoSlabs, level 0
ED_BufferGCUndoSlabs(W, BufP) ==
    IF W.bufs[BufP].USCount > ED_UNDOGCSLABCOUNT
    THEN ED_BufferKillUndoSlabs(W, BufP, W.bufs[BufP].USCount - ED_UNDOGCL0SLABCOUNT)
    ELSE W

\* A block as ED_BufferAllocUndoBlock leaves it.
NewUBlock == [PrevUBlock |-> -1, DataPos |-> -1, DataLen |-> -1, Flags |-> {}, Data |-> <<>>]

\* The set of offsets of the blocks of a slab.
BlockOffsets(USP) == DOMAIN USP.Blocks

\* Put block UB at offset Off of the last slab of the buffer.
SetLastBlock(W, BufP, Off, UB) ==
    LET n == Len(W.bufs[BufP].USlabs)
        USP == W.bufs[BufP].USlabs[n]
    IN  [W EXCEPT !.bufs[BufP].USlabs[n].LastUBlock = Off,
                  !.bufs[BufP].USlabs[n].Blocks =
                      [o \in BlockOffsets(USP) \cup {Off} |->
                          IF o = Off THEN UB ELSE USP.Blocks[o]]]

\* ED_BufferAllocUndoBlock: the state after the call and the value returned;
\* the new block is the last block of the last slab.
RECURSIVE ED_BufferAllocUndoBlock(_, _, _)
ED_BufferAllocUndoBlock(W, BufP, DataLen) ==
    LET USP == LastUSP(W.bufs[BufP])
    IN  IF USP.LastUBlock = 0
        THEN [W |-> SetLastBlock(W, BufP, SizeofUSlabRecord, NewUBlock),
              MaxData |-> (USP.SlabSize - SizeofUSlabRecord) - OffsetofUBlockData]
        ELSE LET UBP == USP.Blocks[USP.LastUBlock]
                 Size == IF "DEL" \in UBP.Flags
                         THEN ((SizeofUBlockRecord + UBP.DataLen) \div 4) * 4
                         ELSE SizeofUBlockRecord
                 NewOffset == USP.LastUBlock + Size
                 MaxData == (USP.SlabSize - NewOffset) - OffsetofUBlockData
             IN  IF MaxData >= DataLen \/ MaxData >= ED_UNDO_DATASIZE
                 THEN [W |-> SetLastBlock(W, BufP, NewOffset, NewUBlock), MaxData |-> MaxData]
                 ELSE ED_BufferAllocUndoBlock(ED_BufferAddNewUndoSlab(W, BufP, DataLen),
                                              BufP, DataLen)

\* The loop without its second pass: the bytes that do not fit in the block
\* are not stored.
AddDelBlocks_DropsRest(W, BufP, Pos, Mode, Data, FirstMod, Count, PrevOffset) ==
    LET LenLeft == Len(Data)
        Store(A) ==
            LET Here == IF A.MaxData >= LenLeft THEN LenLeft ELSE A.MaxData
                Off == LastUSP(A.W.bufs[BufP]).LastUBlock
                UB == [PrevUBlock |-> PrevOffset, DataPos |-> Pos, DataLen |-> Here,
                       Data |-> SubSeq(Data, 1, Here),
                       Flags |-> (Mode \cap {"CHUNK", "DEL"})
                                 \cup (IF FirstMod THEN {"FIRSTMOD"} ELSE {})]
            IN  SetLastBlock(A.W, BufP, Off, UB)
    IN  Store(ED_BufferAllocUndoBlock(W, BufP, LenLeft))

\* ED_BufferAddUndoBlock, the loop that stores a DEL request in one or more blocks.
RECURSIVE AddDelBlocks(_, _, _, _, _, _, _, _)
AddDelBlocks(W, BufP, Pos, Mode, Data, FirstMod, Count, PrevOffset) ==
    LET LenLeft == Len(Data)
        \* A is what ED_BufferAllocUndoBlock gave
        Store(A) ==
            LET Here == IF A.MaxData >= LenLeft THEN LenLeft ELSE A.MaxData
                Off == LastUSP(A.W.bufs[BufP]).LastUBlock
                UB == [PrevUBlock |-> PrevOffset, DataPos |-> Pos, DataLen |-> Here,
                       Data |-> SubSeq(Data, 1, Here),
                       Flags |-> (Mode \cap {"CHUNK", "DEL"})
                                 \cup (IF Count = 0
                                       THEN (IF FirstMod THEN {"FIRSTMOD"} ELSE {})
                                       ELSE {"CHAIN"})]
            IN  IF LenLeft - Here = 0
                THEN SetLastBlock(A.W, BufP, Off, UB)
                ELSE AddDelBlocks(SetLastBlock(A.W, BufP, Off, UB), BufP, Pos, Mode,
                                  SubSeq(Data, Here + 1, LenLeft), FirstMod, Count + 1, Off)
    IN  Store(ED_BufferAllocUndoBlock(W, BufP, LenLeft))

\* ED_BufferAddUndoBlock: can the request be merged into the last block UBP?
\* "append" and "prepend" are the two ways of merging a DEL, "add" is the
\* merge of an ADD, "no" means a new block is needed.
UndoMergeKind(USP, Pos, ULen, Mode) ==
    LET UBP == USP.Blocks[USP.LastUBlock]
    IN  IF "DEL" \in Mode
        THEN IF /\ "CHUNK" \notin Mode
                /\ "DEL" \in UBP.Flags
                /\ UBP.Flags \cap {"CHUNK", "CHAIN"} = {}
                /\ UBP.DataLen + ULen <= ED_UNDO_DATASIZE
                /\ USP.LastUBlock + OffsetofUBlockData + UBP.DataLen + ULen <= USP.SlabSize
             THEN IF UBP.DataPos = Pos THEN "append"
                  ELSE IF UBP.DataPos - ULen = Pos THEN "prepend"
                  ELSE "no"
             ELSE "no"
        ELSE IF "ADD" \in UBP.Flags
             THEN IF "CHAIN" \in Mode THEN "add"
                  ELSE IF /\ UBP.DataPos >= 0
                          /\ UBP.Flags \cap {"CHUNK", "CHAIN"} = {}
                          /\ UBP.DataLen + ULen <= ED_UNDO_DATASIZE
                          /\ UBP.DataPos + UBP.DataLen = Pos
                       THEN "add"
                       ELSE "no"
             ELSE "no"

\* ED_BufferAddUndoBlock.  Data holds the ULen bytes at DataP for a DEL
\* request and is empty otherwise.
ED_BufferAddUndoBlock(W, BufP, Pos, ULen, Mode, Data) ==
    LET \* The block UB in the place ED_BufferAllocUndoBlock gave (A).
        NewBlock(A, UB) ==
            SetLastBlock(A.W, BufP, LastUSP(A.W.bufs[BufP]).LastUBlock, UB)
        \* W2 is the state after the garbage collection.
        Record(W2) ==
            LET n == Len(W2.bufs[BufP].USlabs)
                USP == W2.bufs[BufP].USlabs[n]
                FirstMod == "CLEANUNDO" \in W2.bufs[BufP].Flags
                W3 == [W2 EXCEPT !.bufs[BufP].Flags = @ \ {"CLEANUNDO"}]
                Kind == IF FirstMod \/ USP.LastUBlock = 0 THEN "no"
                        ELSE UndoMergeKind(USP, Pos, ULen, Mode)
                UBP == USP.Blocks[USP.LastUBlock]
                PrevOffset == USP.LastUBlock
                SaveDone(W4) == IF FirstMod
                                THEN [W4 EXCEPT !.bufs[BufP].Flags = @ \cup {"CLEANUNDO"}]
                                ELSE W4
            IN  CASE Kind = "append" ->
                    [W3 EXCEPT !.bufs[BufP].USlabs[n].Blocks[USP.LastUBlock] =
                        [UBP EXCEPT !.Data = UBP.Data \o Data, !.DataLen = UBP.DataLen + ULen]]
                  [] Kind = "prepend" ->
                    [W3 EXCEPT !.bufs[BufP].USlabs[n].Blocks[USP.LastUBlock] =
                        [UBP EXCEPT !.Data = Data \o UBP.Data, !.DataLen = UBP.DataLen + ULen,
                                    !.DataPos = Pos]]
                  [] Kind = "add" ->
                    [W3 EXCEPT !.bufs[BufP].USlabs[n].Blocks[USP.LastUBlock].DataLen =
                        UBP.DataLen + ULen]
                  [] OTHER ->
                    IF "SAVE" \in Mode
                    THEN SaveDone(NewBlock(ED_BufferAllocUndoBlock(W3, BufP, 0),
                                       [PrevUBlock |-> PrevOffset, DataPos |-> -1, DataLen |-> 0,
                                        Flags |-> {"ADD", "SAVE"}, Data |-> <<>>]))
                    ELSE IF "DEL" \in Mode
                    THEN AddDelBlocks(W3, BufP, Pos, Mode, Data, FirstMod, 0, PrevOffset)
                    ELSE NewBlock(ED_BufferAllocUndoBlock(W3, BufP, 0),
                                 [PrevUBlock |-> PrevOffset, DataPos |-> Pos, DataLen |-> ULen,
                                  Flags |-> (Mode \cap {"CHUNK", "CHAIN", "ADD"})
                                            \cup (IF FirstMod THEN {"FIRSTMOD"} ELSE {}),
                                  Data |-> <<>>])
        \* W1 is the state after the primary selection was told.
        Alter(W1) ==
            IF W1.bufs[BufP].USlabs = <<>>
            THEN W1
            ELSE Record(ED_BufferGCUndoSlabs(W1, BufP))
    IN  Alter(IF "DEL" \in Mode THEN ED_XSelAlterPrimary(W, BufP, Pos, -ULen)
              ELSE IF "ADD" \in Mode THEN ED_XSelAlterPrimary(W, BufP, Pos, ULen)
              ELSE W)

\* ED_BufferUndo: the state after the call, whether a block was read (Ok),
\* and the fields of that block.
ED_BufferUndo(W, BufP) ==
    LET NoMore(WW) == [W |-> ED_FrameSetEchoS(WW, "ED_STR_EchoUndoNoMore"), Ok |-> FALSE,
                       Op |-> {}, Pos |-> 0, Len |-> 0, Data |-> <<>>]
        DoUndo(WW) ==
            LET UBP == SlabAt(WW, WW.g.UndoSlabP).Blocks[WW.g.UndoBlock]
            IN  [W |-> WW, Ok |-> TRUE,
                 Op |-> UBP.Flags \cap {"CHAIN", "ADD", "DEL", "FIRSTMOD", "SAVE"},
                 Pos |-> UBP.DataPos, Len |-> UBP.DataLen, Data |-> UBP.Data]
    IN  IF W.bufs[BufP].USlabs = <<>>
        THEN [W |-> ED_FrameSetEchoS(W, "ED_STR_EchoBufNoUndo"), Ok |-> FALSE,
              Op |-> {}, Pos |-> 0, Len |-> 0, Data |-> <<>>]
        ELSE IF W.g.UndoBlock # 0
        THEN IF W.g.UndoSlabP = NULL
             THEN NoMore(W)
             ELSE LET UBP == SlabAt(W, W.g.UndoSlabP).Blocks[W.g.UndoBlock]
                      W1 == [W EXCEPT !.g.UndoBlock = UBP.PrevUBlock]
                  IN  IF UBP.PrevUBlock = 0
                      THEN NoMore(W1)
                      ELSE IF W.g.UndoBlock = SizeofUSlabRecord
                      THEN LET W2 == [W1 EXCEPT !.g.UndoSlabP = PrevUSP(W, W.g.UndoSlabP)]
                           IN  IF W2.g.UndoSlabP = NULL THEN NoMore(W2) ELSE DoUndo(W2)
                      ELSE DoUndo(W1)
        ELSE IF W.g.CmdLastId = "ED_UndoId"
        THEN NoMore(W)
        ELSE LET W1 == [W EXCEPT !.g.UndoSlabP = LastUSP(W.bufs[BufP]).Id,
                                 !.g.UndoBlock = LastUSP(W.bufs[BufP]).LastUBlock]
             IN  IF W1.g.UndoBlock = 0 THEN NoMore(W1) ELSE DoUndo(W1)

(***************************************************************************)
(* Panes.  A pane is a record [BufP, CursorPos]; the rows, columns and     *)
(* scroll position of a pane are display state and are left out.           *)
(***************************************************************************)
\* ED_BufferReadOnly without the test of the flag.
ED_BufferReadOnly_Never(W, BufP) == FALSE

\* ED_BufferReadOnly: the value returned, and the state after a call that
\* returned 1.
ED_BufferReadOnly(W, BufP) == "READONLY" \in W.bufs[BufP].Flags

ReadOnlyEcho(W) == ED_FrameSetEchoS(W, "ED_STR_EchoReadOnly")

(***************************************************************************)
(* Rows.  A row of a window holds RowChars characters, and a line longer   *)
(* than that wraps; a newline at the end of a full row stays on the row.   *)
(* The operators below take the buffer B, and PanePos, the position of the *)
(* first character of the pane.                                            *)
(***************************************************************************)
\* A / D as C computes it, for D > 0.
IntDiv(A, D) == IF A >= 0 THEN A \div D ELSE -((-A) \div D)

\* ED_PaneFindLoc: the loop, from position CurPos on, up to FoundIt.
RECURSIVE FindLocLoop(_, _, _, _, _, _, _)
FindLocLoop(B, Pos, ColLimit, CurPos, CurRow, CurCol, RowStartPos) ==
    IF CurPos >= B.LastPos \/ (ByteAt(B, CurPos) = 10 /\ CurPos = Pos)
    THEN [Row |-> CurRow, Col |-> CurCol, RowStartPos |-> RowStartPos]
    ELSE
    \* L: after the test for the newline.
    Then(IF ByteAt(B, CurPos) = 10
         THEN [Row |-> CurRow + 1, Col |-> 0, RowStartPos |-> CurPos + 1]
         ELSE [Row |-> CurRow, Col |-> CurCol + 1, RowStartPos |-> RowStartPos],
         LAMBDA L :
    \* M: after the test for the wrap.
    Then(IF L.Col > ColLimit THEN [Row |-> L.Row + 1, Col |-> 1, RowStartPos |-> CurPos]
         ELSE L,
         LAMBDA M :
    IF CurPos = Pos
    THEN [M EXCEPT !.Col = IF @ # 0 THEN @ - 1 ELSE 0]
    ELSE FindLocLoop(B, Pos, ColLimit, CurPos + ED_BufferGetUTF8Len(ByteAt(B, CurPos)),
                     M.Row, M.Col, M.RowStartPos)))

\* ED_PaneFindLoc with PaneLimit 0: *RowP, *ColP and the value returned.
\* StartRowCount is the field of the pane.
ED_PaneFindLoc(B, PanePos, StartRowCount, Pos, ColLimit, FromZero) ==
    LET Zero == FromZero \/ Pos < PanePos
    IN  [FindLocLoop(B, Pos, ColLimit, IF Zero THEN 0 ELSE PanePos,
                     IF Zero THEN 0 ELSE StartRowCount, 0, IF Zero THEN 0 ELSE PanePos)
         EXCEPT !.Row = IF FromZero THEN @ ELSE @ - StartRowCount]

\* PaneP->StartRowCount, as ED_PaneFindLoc from zero sets it for PanePos:
\* the row its loop finds from position 0.
StartRowCount(B, PanePos, ColLimit) == FindLocLoop(B, PanePos, ColLimit, 0, 0, 0, 0).Row

\* ED_PaneUpdateStartPos: the loop backwards, Pos and Count after it.
RECURSIVE UpdateStartPosBack(_, _, _)
UpdateStartPosBack(B, Pos, Count) ==
    IF Pos = 0 THEN [Pos |-> 0, Count |-> Count + 1]
    ELSE IF ByteAt(B, Pos) = 10 THEN [Pos |-> Pos + 1, Count |-> Count]
    ELSE UpdateStartPosBack(B, Pos - 1, Count + 1)

\* ED_PaneUpdateStartPos: the loop forwards, Pos after it.
RECURSIVE UpdateStartPosForward(_, _, _, _, _, _)
UpdateStartPosForward(B, Pos, Count, SubCount, PrevRowPos, NewRowChars) ==
    IF Count = 0 THEN Pos
    ELSE
    Then(Pos + ED_BufferGetUTF8Len(ByteAt(B, Pos)), LAMBDA Pos1 :
    IF Pos1 = B.LastPos THEN Pos1
    ELSE IF ByteAt(B, Pos1) = 10 THEN PrevRowPos
    ELSE UpdateStartPosForward(B, Pos1, Count - 1,
                               IF SubCount + 1 = NewRowChars THEN 0 ELSE SubCount + 1,
                               IF SubCount + 1 = NewRowChars THEN Pos1 ELSE PrevRowPos,
                               NewRowChars))

\* ED_PaneUpdateStartPos: the new PanePos.
ED_PaneUpdateStartPos(B, PanePos, OldRowChars, NewRowChars) ==
    IF PanePos = 0 \/ OldRowChars = NewRowChars THEN PanePos
    ELSE IF ByteAt(B, PanePos - 1) = 10 THEN PanePos
    ELSE
    Then(UpdateStartPosBack(B, PanePos - 1, 0), LAMBDA Back :
    UpdateStartPosForward(
        B, Back.Pos,
        (Back.Count \div (IF OldRowChars = 0 THEN NewRowChars ELSE OldRowChars)) * NewRowChars,
        0, Back.Pos, NewRowChars))

\* ED_BufferGetPosMinusRows: the loop backwards, Pos and RowCount after it.
RECURSIVE GetPosMinusRowsLoop(_, _, _, _, _, _)
GetPosMinusRowsLoop(B, Pos, Rows, ColLimit, RowCount, ColCount) ==
    \* C: RowCount and ColCount after the test for the newline.
    Then(IF ByteAt(B, Pos) = 10
         THEN [Row |-> RowCount + 1 + IntDiv(ColCount + 1 - 2, ColLimit), Col |-> 0]
         ELSE [Row |-> RowCount, Col |-> ColCount + 1],
         LAMBDA C :
    IF ByteAt(B, Pos) = 10 /\ C.Row >= Rows THEN [Pos |-> Pos + 1, RowCount |-> C.Row]
    ELSE IF Pos = 0
    THEN [Pos |-> 0, RowCount |-> C.Row + 1 + IntDiv(C.Col - 1, ColLimit)]
    ELSE GetPosMinusRowsLoop(B, Pos - 1, Rows, ColLimit, C.Row, C.Col))

\* ED_BufferGetPosMinusRows: the loop forwards over Count characters.
RECURSIVE GetPosMinusRowsForward(_, _, _)
GetPosMinusRowsForward(B, Pos, Count) ==
    IF Count = 0 THEN Pos
    ELSE GetPosMinusRowsForward(B, Pos + ED_BufferGetUTF8Len(ByteAt(B, Pos)), Count - 1)

\* ED_BufferGetPosMinusRows: the value returned.
ED_BufferGetPosMinusRows(B, Pos, Rows, ColLimit) ==
    IF Rows = 0 THEN Pos
    ELSE IF Pos = 0 \/ Pos - 1 = 0 THEN 0
    ELSE
    Then(GetPosMinusRowsLoop(B, IF ByteAt(B, Pos - 1) = 10 THEN Pos - 2 ELSE Pos - 1,
                             Rows, ColLimit, 0, 0),
         LAMBDA R :
    IF R.RowCount > Rows
    THEN GetPosMinusRowsForward(B, R.Pos, (R.RowCount - Rows) * ColLimit)
    ELSE R.Pos)

\* ED_PaneMoveForCursor, for a CursorRowStartPos that is not negative: the
\* pane P after it.
ED_PaneMoveForCursor(B, P, CursorRowStartPos, NewCursorRow, ColLimit) ==
    [P EXCEPT !.PanePos = ED_BufferGetPosMinusRows(B, CursorRowStartPos, NewCursorRow,
                                                   ColLimit)]

\* ED_PaneMoveAfterCursorMove: the pane P after it.  Loc is what
\* ED_PaneFindLoc gave for the cursor.
ED_PaneMoveAfterCursorMove(B, P, Loc, DeltaRow, ColLimit) ==
    IF Loc.Row <= P.RowCount - 2 /\ Loc.Row >= 0 THEN P
    ELSE ED_PaneMoveForCursor(B, P, Loc.RowStartPos,
                              IF Loc.Row > P.RowCount - 2 THEN (P.RowCount - 2) - DeltaRow
                              ELSE DeltaRow,
                              ColLimit)

\* ED_PaneUpdateOtherPanes that moves the cursor of the other pane and
\* leaves its start where it is.
UpdateOtherPane_CursorOnly(B, P, InsertPos, InsertCount, ColLimit) ==
    IF P.CursorPos > InsertPos
    THEN [P EXCEPT !.CursorPos = IF @ + InsertCount < InsertPos THEN InsertPos
                                 ELSE @ + InsertCount]
    ELSE P

\* ED_PaneUpdateOtherPanes: what it does to one other pane P on the
\* buffer B, when InsertCount is not zero.
UpdateOtherPane(B, P, InsertPos, InsertCount, ColLimit) ==
    \* P1: the pane with its new start.
    Then(IF P.PanePos > InsertPos
         THEN [P EXCEPT !.PanePos =
                  ED_PaneUpdateStartPos(
                      B, IF @ + InsertCount < InsertPos THEN InsertPos ELSE @ + InsertCount,
                      0, ColLimit)]
         ELSE P,
         LAMBDA P1 :
    IF P.CursorPos <= InsertPos THEN P1
    ELSE
    \* P2: the pane with its new cursor.
    Then([P1 EXCEPT !.CursorPos =
             IF @ + InsertCount < InsertPos THEN InsertPos ELSE @ + InsertCount],
         LAMBDA P2 :
    ED_PaneMoveAfterCursorMove(
        B, P2,
        ED_PaneFindLoc(B, P2.PanePos, StartRowCount(B, P2.PanePos, ColLimit), P2.CursorPos,
                       ColLimit, FALSE),
        2, ColLimit)))

\* ED_PaneUpdateOtherPanes.  Of a pane whose record holds the cursor only,
\* the cursor is updated.
ED_PaneUpdateOtherPanes(W, PaneP, InsertPos, InsertCount) ==
    [W EXCEPT !.panes =
        [p \in DOMAIN W.panes |->
            IF p = PaneP \/ W.panes[p].BufP # W.panes[PaneP].BufP \/ InsertCount = 0
            THEN W.panes[p]
            ELSE IF "PanePos" \in DOMAIN W.panes[p]
            THEN UpdateOtherPane(W.bufs[W.panes[p].BufP], W.panes[p], InsertPos, InsertCount,
                                 RowChars)
            ELSE IF W.panes[p].CursorPos > InsertPos
            THEN [W.panes[p] EXCEPT !.CursorPos =
                     IF W.panes[p].CursorPos + InsertCount < InsertPos
                     THEN InsertPos
                     ELSE W.panes[p].CursorPos + InsertCount]
            ELSE W.panes[p]]]

\* ED_PaneDelSelRange: the state after the call and the value returned.
ED_PaneDelSelRange(W, PaneP, DoUpdate) ==
    LET BufP == W.panes[PaneP].BufP
        Cur == W.panes[PaneP].CursorPos
        StartPos == Min(Cur, W.g.SelMarkPos)
        Total == Max(Cur, W.g.SelMarkPos) - StartPos
    IN  IF W.g.SelPaneP # PaneP \/ W.g.SelMarkPos = Cur
        THEN [W |-> W, Ret |-> 0]
        ELSE
        \* W2: the gap is at the start of the range.
        Then([W EXCEPT !.bufs[BufP] =
                           ED_BufferPlaceGap([@ EXCEPT !.Flags = @ \cup {"MOD"}], StartPos, 0),
                       !.panes[PaneP].CursorPos = StartPos,
                       !.g.SelPaneP = NULL],
             LAMBDA W2 :
        \* Data: the bytes about to go.
        Then(MemRead(W2.bufs[BufP].Mem, W2.bufs[BufP].GapEndP, Total), LAMBDA Data :
        \* W3: the undo block is written.
        Then(ED_BufferAddUndoBlock(W2, BufP, StartPos, Total, {"DEL", "CHUNK"}, Data),
             LAMBDA W3 :
        \* W4: the bytes are saved.
        Then(IF W3.g.CmdThisId = "ED_KillId" THEN ED_KillRingAdd(W3, Data, TRUE) ELSE W3,
             LAMBDA W4 :
        \* W6: the bytes are out of the buffer.
        Then([W4 EXCEPT !.bufs[BufP] =
                 ED_BufferUpdateMark([@ EXCEPT !.GapEndP = @ + Total, !.LastPos = @ - Total],
                                     StartPos, -Total)],
             LAMBDA W6 :
        [W |-> IF DoUpdate
               THEN ED_PaneUpdateOtherPanes(W6, PaneP, StartPos, -Total)
               ELSE W6,
         Ret |-> Total])))))

\* The string StrP as the copy loop stores it: CR becomes LF.
CRtoLF(Str) == [i \in 1 .. Len(Str) |-> IF Str[i] = 13 THEN 10 ELSE Str[i]]

\* Str, n times over.
RECURSIVE Repeat(_, _)
Repeat(Str, n) == IF n <= 0 THEN <<>> ELSE Str \o Repeat(Str, n - 1)

\* ED_PaneInsertChars
ED_PaneInsertChars(W, PaneP, Str, Typed) ==
    LET BufP == W.panes[PaneP].BufP
        \* D is what ED_PaneDelSelRange gave.
        AfterSel(D) ==
            LET SelZap == D.Ret
                CmdMult == D.W.g.CmdMult
                TotalCount == Len(Str) * CmdMult
                InsertPos == D.W.panes[PaneP].CursorPos
                UndoMode == {"ADD"} \cup (IF SelZap # 0 THEN {"CHAIN"} ELSE {})
                                    \cup (IF Typed THEN {} ELSE {"CHUNK"})
                \* B3: the gap is open at InsertPos; copy the characters in.
                Written(B3) ==
                    [B3 EXCEPT !.Mem = MemWrite(B3.Mem, B3.GapStartP,
                                                Repeat(CRtoLF(Str), CmdMult))]
                Grown(W4) ==
                    [W4 EXCEPT !.bufs[BufP].GapStartP = @ + TotalCount,
                               !.bufs[BufP].LastPos = @ + TotalCount,
                               !.panes[PaneP].CursorPos = @ + TotalCount]
                Recorded(W3) ==
                    IF TotalCount # 0
                    THEN Grown(ED_BufferAddUndoBlock(W3, BufP, InsertPos, TotalCount,
                                                     UndoMode, <<>>))
                    ELSE W3
                \* W2: the marks are moved.
                Store(W2) ==
                    IF CmdMult > 0
                    THEN Recorded(
                             [W2 EXCEPT !.bufs[BufP] =
                                            Written(ED_BufferPlaceGap(
                                                        [@ EXCEPT !.Flags = @ \cup {"MOD"}],
                                                        InsertPos, TotalCount)),
                                        !.g.CmdMult = 1])
                    ELSE W2
            IN  ED_PaneUpdateOtherPanes(
                    Store([D.W EXCEPT !.bufs[BufP] =
                                          ED_BufferUpdateMark(@, InsertPos, TotalCount)]),
                    PaneP, InsertPos, TotalCount)
    IN  IF ED_BufferReadOnly(W, BufP)
        THEN ReadOnlyEcho(W)
        ELSE AfterSel(ED_PaneDelSelRange(
                          [W EXCEPT !.g.CmdLastId = "ED_InsertId", !.g.Echo = ""],
                          PaneP, FALSE))

\* ED_PaneInsertBufferChars, for the bytes Data of TempBufP.
ED_PaneInsertBufferChars(W, PaneP, Data, IsPaste) ==
    LET BufP == W.panes[PaneP].BufP
        Size == Len(Data)
        \* D is what ED_PaneDelSelRange gave.
        AfterSel(D) ==
            LET SelZap == D.Ret
                Cur == D.W.panes[PaneP].CursorPos
                NewCur == IF IsPaste THEN Cur + Size ELSE Cur
                UndoMode == {"ADD", "CHUNK"} \cup (IF SelZap # 0 THEN {"CHAIN"} ELSE {})
                Written(B1) == [B1 EXCEPT !.Mem = MemWrite(B1.Mem, B1.GapStartP, Data)]
                Marks(B5) == IF IsPaste THEN B5 ELSE ED_BufferPushMark(B5, NewCur + Size)
                Finish(W4) ==
                    [W4 EXCEPT !.bufs[BufP] = Marks(ED_BufferUpdateMark(@, NewCur, Size))]
                Grown(W2) ==
                    Finish(ED_PaneUpdateOtherPanes(
                               [W2 EXCEPT !.bufs[BufP].GapStartP = @ + Size,
                                          !.bufs[BufP].LastPos = @ + Size,
                                          !.panes[PaneP].CursorPos = NewCur],
                               PaneP, NewCur, Size - SelZap))
            IN  Grown(ED_BufferAddUndoBlock(
                          [D.W EXCEPT !.bufs[BufP] =
                                          Written(ED_BufferPlaceGap(
                                                      [@ EXCEPT !.Flags = @ \cup {"MOD"}],
                                                      Cur, Size + ED_GAPEXTRAEXPAND))],
                          BufP, Cur, Size, UndoMode, <<>>))
    IN  AfterSel(ED_PaneDelSelRange(W, PaneP, FALSE))

\* ED_XSelInsertData: Data is what the owner of the selection sends; the
\* empty string stands for an empty answer and for no answer at all.
ED_XSelInsertData(W, PaneP, Data) ==
    IF Data = <<>>
    THEN W
    ELSE LET BufP == W.panes[PaneP].BufP
         IN  ED_PaneInsertBufferChars(
                 [W EXCEPT !.bufs[BufP] = ED_BufferPushMark(@, W.panes[PaneP].CursorPos)],
                 PaneP, Data, TRUE)

(***************************************************************************)
(* Commands.  Each takes the state in which the dispatcher calls it, with  *)
(* ED_CmdMult, ED_CmdMultNeg, ED_CmdMultCmd, ED_CmdShift and ED_CmdThisId  *)
(* set, and yields the state in which it returns.  The counting loops      *)
(* leave ED_CmdMult decremented in the program; the dispatcher sets it     *)
(* back to 1 when the command returns, so the decrement is not modelled.   *)
(***************************************************************************)
\* ED_AuxCmdDoShiftSel
ED_AuxCmdDoShiftSel(W, PaneP) ==
    IF W.g.CmdShift # 0
    THEN IF W.g.SelPaneP # PaneP
         THEN ED_XSelSetPrimary(
                  [W EXCEPT !.g.SelPaneP = PaneP,
                            !.g.SelMarkPos = W.panes[PaneP].CursorPos,
                            !.bufs[W.panes[PaneP].BufP] =
                                ED_BufferPushMark(@, W.panes[PaneP].CursorPos)],
                  PaneP)
         ELSE W
    ELSE [W EXCEPT !.g.SelPaneP = NULL]

\* ED_AuxCmdInWordScan: the cursor position after the scan and the value returned.
RECURSIVE ED_AuxCmdInWordScan(_, _, _, _, _)
ED_AuxCmdInWordScan(B, Cur, InWord, Dir, PosLimit) ==
    IF Cur + Dir = PosLimit
    THEN [Pos |-> Cur + Dir, Ret |-> 1]
    ELSE IF ED_BufferCIsAlpha(ByteAt(B, Cur + Dir)) = InWord
    THEN ED_AuxCmdInWordScan(B, Cur + Dir, InWord, Dir, PosLimit)
    ELSE [Pos |-> Cur + Dir, Ret |-> 0]

\* The loop that steps CurP back over UTF-8 continuation bytes: the pointer
\* it stops at.
RECURSIVE BackOverMidUTF8(_, _)
BackOverMidUTF8(mem, P) ==
    IF ED_BUFFERISMIDUTF8(MemGet(mem, P)) THEN BackOverMidUTF8(mem, P - 1) ELSE P

\* The loop of ED_CmdGoNextChar: the cursor position it ends at.
RECURSIVE GoNextCharLoop(_, _, _)
GoNextCharLoop(B, Cur, Mult) ==
    IF Mult # 0 /\ Cur < B.LastPos
    THEN GoNextCharLoop(B, Cur + ED_BufferGetUTF8Len(ByteAt(B, Cur)), Mult - 1)
    ELSE Cur

\* The loop of ED_CmdGoPrevChar: the cursor position it ends at.
RECURSIVE GoPrevCharLoop(_, _, _)
GoPrevCharLoop(B, Cur, Mult) ==
    IF Mult # 0 /\ Cur # 0
    THEN LET P == ED_BufferPosToPtr(B, Cur - 1)
         IN  GoPrevCharLoop(B, (Cur - 1) - (P - BackOverMidUTF8(B.Mem, P)), Mult - 1)
    ELSE Cur

RECURSIVE ED_CmdGoNextChar(_, _), ED_CmdGoPrevChar(_, _)

\* ED_CmdGoNextChar
ED_CmdGoNextChar(W, PaneP) ==
    LET B == W.bufs[W.panes[PaneP].BufP]
    IN  IF W.g.CmdMultNeg # 0
        THEN ED_CmdGoPrevChar([W EXCEPT !.g.CmdMultNeg = 0], PaneP)
        ELSE IF W.panes[PaneP].CursorPos >= B.LastPos
        THEN ED_FrameSetEchoS(W, "ED_STR_EchoEndBuf")
        ELSE LET W1 == ED_AuxCmdDoShiftSel(W, PaneP)
             IN  [W1 EXCEPT !.panes[PaneP].CursorPos = GoNextCharLoop(B, @, W.g.CmdMult)]

\* ED_CmdGoPrevChar
ED_CmdGoPrevChar(W, PaneP) ==
    LET B == W.bufs[W.panes[PaneP].BufP]
    IN  IF W.g.CmdMultNeg # 0
        THEN ED_CmdGoNextChar([W EXCEPT !.g.CmdMultNeg = 0], PaneP)
        ELSE IF W.panes[PaneP].CursorPos = 0
        THEN ED_FrameSetEchoS(W, "ED_STR_EchoBegBuf")
        ELSE LET W1 == ED_AuxCmdDoShiftSel(W, PaneP)
             IN  [W1 EXCEPT !.panes[PaneP].CursorPos = GoPrevCharLoop(B, @, W.g.CmdMult)]

\* ED_CmdGoBufEnd
ED_CmdGoBufEnd(W, PaneP) ==
    LET BufP == W.panes[PaneP].BufP
        LastPos == W.bufs[BufP].LastPos
    IN  [W EXCEPT !.g.SelPaneP = NULL,
                  !.panes[PaneP].CursorPos = LastPos,
                  !.bufs[BufP] = ED_BufferPushMark(@, LastPos)]

\* ED_CmdGoBufStart
ED_CmdGoBufStart(W, PaneP) ==
    [W EXCEPT !.g.SelPaneP = NULL,
              !.panes[PaneP].CursorPos = 0,
              !.bufs[W.panes[PaneP].BufP] = ED_BufferPushMark(@, 0)]

\* ED_CmdSetMark that pops first and goes to the mark that is then the top.
ED_CmdSetMark_NowTop(W, PaneP) ==
    LET BufP == W.panes[PaneP].BufP
        Popped == ED_BufferGetMark(W.bufs[BufP], TRUE)
    IN  IF W.g.CmdMult = 4
        THEN [W EXCEPT !.panes[PaneP].CursorPos = ED_BufferGetMarkPos(Popped),
                       !.bufs[BufP] = Popped]
        ELSE [W EXCEPT !.bufs[BufP] = ED_BufferPushMark(@, W.panes[PaneP].CursorPos)]

\* ED_CmdSetMark
ED_CmdSetMark(W, PaneP) ==
    LET BufP == W.panes[PaneP].BufP
    IN  IF W.g.CmdMult = 4
        THEN [W EXCEPT !.panes[PaneP].CursorPos = ED_BufferGetMarkPos(W.bufs[BufP]),
                       !.bufs[BufP] = ED_BufferGetMark(@, TRUE)]
        ELSE [W EXCEPT !.bufs[BufP] = ED_BufferPushMark(@, W.panes[PaneP].CursorPos)]

\* ED_CmdQuitAction
ED_CmdQuitAction(W, PaneP) ==
    ED_FrameSetEchoS([W EXCEPT !.g.SelPaneP = NULL], "ED_STR_EchoQuit")

\* ED_AuxGotoChar with the number ED_CmdGotoChar takes from the prefix.
ED_AuxGotoChar(W, PaneP, Numb) ==
    LET BufP == W.panes[PaneP].BufP
        Pos == IF Numb - 1 < 0 THEN 0
               ELSE IF Numb - 1 > W.bufs[BufP].LastPos THEN W.bufs[BufP].LastPos
               ELSE Numb - 1
    IN  [W EXCEPT !.bufs[BufP] = ED_BufferPushMark(@, Pos),
                  !.panes[PaneP].CursorPos = Pos]

\* ED_CmdGotoChar with a numeric prefix (without one it prompts for the number).
ED_CmdGotoChar(W, PaneP) == ED_AuxGotoChar(W, PaneP, W.g.CmdMult)

\* The loop of ED_CmdDelNextChar: the buffer after it, the bytes taken into
\* the gap, and whether the end of the buffer stopped it.
RECURSIVE DelNextCharLoop(_, _, _, _)

\* The loop with LastPos taken down by one for each character, not by the
\* number of its bytes.
DelNextCharLoop_CountsChars(B, Cur, Mult, Total) ==
    IF Mult = 0
    THEN [B |-> B, Total |-> Total, Hit |-> FALSE]
    ELSE IF Cur = B.LastPos
    THEN [B |-> B, Total |-> Total, Hit |-> TRUE]
    ELSE LET L == ED_BufferGetUTF8Len(MemGet(B.Mem, B.GapEndP))
         IN  DelNextCharLoop([B EXCEPT !.GapEndP = @ + L, !.LastPos = @ - 1],
                             Cur, Mult - 1, Total + L)

DelNextCharLoop(B, Cur, Mult, Total) ==
    IF Mult = 0
    THEN [B |-> B, Total |-> Total, Hit |-> FALSE]
    ELSE IF Cur = B.LastPos
    THEN [B |-> B, Total |-> Total, Hit |-> TRUE]
    ELSE LET L == ED_BufferGetUTF8Len(MemGet(B.Mem, B.GapEndP))
         IN  DelNextCharLoop([B EXCEPT !.GapEndP = @ + L, !.LastPos = @ - L],
                             Cur, Mult - 1, Total + L)

\* The loop of ED_CmdDelPrevChar: the buffer after it, the cursor, the bytes
\* taken into the gap, and whether the start of the buffer stopped it.
RECURSIVE DelPrevCharLoop(_, _, _, _)
DelPrevCharLoop(B, Cur, Mult, Total) ==
    IF Mult = 0
    THEN [B |-> B, Cur |-> Cur, Total |-> Total, Hit |-> FALSE]
    ELSE IF Cur = 0
    THEN [B |-> B, Cur |-> Cur, Total |-> Total, Hit |-> TRUE]
    ELSE LET L == 1 + ((B.GapStartP - 1) - BackOverMidUTF8(B.Mem, B.GapStartP - 1))
         IN  DelPrevCharLoop([B EXCEPT !.GapStartP = @ - L, !.LastPos = @ - L],
                             Cur - L, Mult - 1, Total + L)

RECURSIVE ED_CmdDelNextChar(_, _), ED_CmdDelPrevChar(_, _)

\* ED_CmdDelNextChar
ED_CmdDelNextChar(W, PaneP) ==
    LET BufP == W.panes[PaneP].BufP
        Cur == W.panes[PaneP].CursorPos
        \* R is what the loop gave.
        Deleted(R) ==
            LET Echoed(W1) ==
                    IF R.Hit THEN ED_FrameSetEchoS(W1, "ED_STR_EchoEndBuf") ELSE W1
                Marked(W3) ==
                    [W3 EXCEPT !.bufs[BufP] =
                        ED_BufferUpdateMark([@ EXCEPT !.Flags = @ \cup {"MOD"}], Cur, -R.Total)]
                Record(W2) ==
                    IF R.Total # 0
                    THEN ED_PaneUpdateOtherPanes(
                             Marked(ED_BufferAddUndoBlock(
                                        W2, BufP, Cur, R.Total, {"DEL"},
                                        MemRead(R.B.Mem, R.B.GapEndP - R.Total, R.Total))),
                             PaneP, Cur, -R.Total)
                    ELSE W2
            IN  Record(Echoed([W EXCEPT !.bufs[BufP] = R.B]))
        \* D is what ED_PaneDelSelRange gave.
        AfterSel(D) ==
            IF D.Ret # 0 THEN D.W
            ELSE IF W.g.CmdMultNeg # 0
            THEN ED_CmdDelPrevChar([W EXCEPT !.g.CmdMultNeg = 0], PaneP)
            ELSE Deleted(DelNextCharLoop(ED_BufferPlaceGap(W.bufs[BufP], Cur, 0),
                                         Cur, W.g.CmdMult, 0))
    IN  IF ED_BufferReadOnly(W, BufP) THEN ReadOnlyEcho(W)
        ELSE AfterSel(ED_PaneDelSelRange(W, PaneP, TRUE))

\* ED_CmdDelPrevChar
ED_CmdDelPrevChar(W, PaneP) ==
    LET BufP == W.panes[PaneP].BufP
        Cur == W.panes[PaneP].CursorPos
        \* R is what the loop gave.
        Deleted(R) ==
            LET Echoed(W1) ==
                    IF R.Hit THEN ED_FrameSetEchoS(W1, "ED_STR_EchoBegBuf") ELSE W1
                Marked(W3) ==
                    [W3 EXCEPT !.bufs[BufP] =
                        ED_BufferUpdateMark([@ EXCEPT !.Flags = @ \cup {"MOD"}],
                                            R.Cur, -R.Total)]
                Record(W2) ==
                    IF R.Total # 0
                    THEN ED_PaneUpdateOtherPanes(
                             Marked(ED_BufferAddUndoBlock(
                                        W2, BufP, R.Cur, R.Total, {"DEL"},
                                        MemRead(R.B.Mem, R.B.GapStartP, R.Total))),
                             PaneP, R.Cur, -R.Total)
                    ELSE W2
            IN  Record(Echoed([W EXCEPT !.bufs[BufP] = R.B,
                                        !.panes[PaneP].CursorPos = R.Cur]))
        \* D is what ED_PaneDelSelRange gave.
        AfterSel(D) ==
            IF D.Ret # 0 THEN D.W
            ELSE IF W.g.CmdMultNeg # 0
            THEN ED_CmdDelNextChar([W EXCEPT !.g.CmdMultNeg = 0], PaneP)
            ELSE Deleted(DelPrevCharLoop(ED_BufferPlaceGap(W.bufs[BufP], Cur, 0),
                                         Cur, W.g.CmdMult, 0))
    IN  IF ED_BufferReadOnly(W, BufP) THEN ReadOnlyEcho(W)
        ELSE AfterSel(ED_PaneDelSelRange(W, PaneP, TRUE))

\* The loop of ED_CmdDelNextWord: the cursor position it ends at.  (The test
\* for the end of the buffer at the top of the loop never succeeds: the loop
\* is left as soon as a scan reaches LastPos.)
RECURSIVE DelNextWordLoop(_, _, _)
DelNextWordLoop(B, Cur, Mult) ==
    LET \* S2 is what the scan over the word gave.
        InWord(S2) == IF S2.Ret = 1 THEN S2.Pos ELSE DelNextWordLoop(B, S2.Pos, Mult - 1)
        \* S1 is what the scan over what is not a word gave.
        NotInWord(S1) ==
            IF S1.Ret = 1 THEN S1.Pos
            ELSE InWord(ED_AuxCmdInWordScan(B, S1.Pos, TRUE, 1, B.LastPos))
    IN  IF Mult = 0 \/ Cur = B.LastPos
        THEN Cur
        ELSE NotInWord(IF ~ED_BufferCIsAlpha(ByteAt(B, Cur))
                       THEN ED_AuxCmdInWordScan(B, Cur, FALSE, 1, B.LastPos)
                       ELSE [Pos |-> Cur, Ret |-> 0])

\* The loop of ED_CmdDelPrevWord: the cursor position it ends at.
RECURSIVE DelPrevWordLoop(_, _, _)
DelPrevWordLoop(B, Cur, Mult) ==
    LET \* S2 is what the scan over the word gave.
        InWord(S2) ==
            IF S2.Ret = 1 THEN S2.Pos
            ELSE DelPrevWordLoop(B, S2.Pos + ED_BufferGetUTF8Len(MemGet(B.Mem, S2.Pos)),
                                 Mult - 1)
        \* S1 is what the scan over what is not a word gave.
        NotInWord(S1) ==
            IF S1.Ret = 1 THEN S1.Pos
            ELSE InWord(ED_AuxCmdInWordScan(B, S1.Pos, TRUE, -1, 0))
        \* P is the start of the character before the cursor.
        Back(P) ==
            IF P = 0 THEN P
            ELSE NotInWord(IF ~ED_BufferCIsAlpha(MemGet(B.Mem, P))
                           THEN ED_AuxCmdInWordScan(B, P, FALSE, -1, 0)
                           ELSE [Pos |-> P, Ret |-> 0])
    IN  IF Mult = 0
        THEN Cur
        ELSE Back(BackOverMidUTF8(B.Mem, Cur - 1))

RECURSIVE ED_CmdDelNextWord(_, _), ED_CmdDelPrevWord(_, _)

\* ED_CmdDelNextWord
ED_CmdDelNextWord(W, PaneP) ==
    LET BufP == W.panes[PaneP].BufP
        W0 == [W EXCEPT !.g.SelPaneP = NULL]
        StartPos == W.panes[PaneP].CursorPos
        \* W1: the gap is at the cursor; EndPos is where the loop stopped.
        Delete(W1, EndPos) ==
            LET Total == EndPos - StartPos
                B1 == W1.bufs[BufP]
                Remove(W3) ==
                    [W3 EXCEPT !.bufs[BufP] =
                        ED_BufferUpdateMark([@ EXCEPT !.GapEndP = @ + Total,
                                                      !.LastPos = @ - Total],
                                            StartPos, -Total)]
                Kill(W2, Data) ==
                    Remove(ED_KillRingAdd([W2 EXCEPT !.bufs[BufP].Flags = @ \cup {"MOD"}],
                                          Data, TRUE))
                Save(Data) ==
                    Kill(ED_BufferAddUndoBlock(W1, BufP, StartPos, Total, {"DEL", "CHUNK"},
                                               Data), Data)
            IN  IF Total # 0
                THEN ED_PaneUpdateOtherPanes(Save(MemRead(B1.Mem, B1.GapEndP, Total)),
                                             PaneP, StartPos, -Total)
                ELSE W1
        Scan(W1) == Delete(W1, DelNextWordLoop(W1.bufs[BufP], StartPos, W.g.CmdMult))
    IN  IF ED_BufferReadOnly(W, BufP) THEN ReadOnlyEcho(W)
        ELSE IF W.g.CmdMultNeg # 0
        THEN ED_CmdDelPrevWord([W0 EXCEPT !.g.CmdMultNeg = 0], PaneP)
        ELSE IF StartPos = W.bufs[BufP].LastPos
        THEN ED_FrameSetEchoS(W0, "ED_STR_EchoEndBuf")
        ELSE Scan([W0 EXCEPT !.g.CmdThisId = "ED_KillId",
                             !.bufs[BufP] = ED_BufferPlaceGap(@, StartPos, 0)])

\* ED_CmdDelPrevWord
ED_CmdDelPrevWord(W, PaneP) ==
    LET BufP == W.panes[PaneP].BufP
        W0 == [W EXCEPT !.g.SelPaneP = NULL]
        StartPos == W.panes[PaneP].CursorPos
        \* W1: the gap is at the cursor; Cur is where the loop stopped.
        Delete(W1, Cur) ==
            LET Total == StartPos - Cur
                Marked(W4) ==
                    [W4 EXCEPT !.bufs[BufP] =
                        ED_BufferUpdateMark([@ EXCEPT !.Flags = @ \cup {"MOD"}], Cur, -Total)]
                Save(W2, Data) ==
                    Marked(ED_KillRingAdd(
                               ED_BufferAddUndoBlock(W2, BufP, Cur, Total, {"DEL", "CHUNK"},
                                                     Data),
                               Data, FALSE))
                \* W2: the cursor and the gap start are moved back.
                Record(W2) ==
                    Save(W2, MemRead(W2.bufs[BufP].Mem, W2.bufs[BufP].GapStartP, Total))
            IN  IF Total # 0
                THEN ED_PaneUpdateOtherPanes(
                         Record([W1 EXCEPT !.panes[PaneP].CursorPos = Cur,
                                           !.bufs[BufP].GapStartP = @ - Total,
                                           !.bufs[BufP].LastPos = @ - Total]),
                         PaneP, Cur, -Total)
                ELSE [W1 EXCEPT !.panes[PaneP].CursorPos = Cur]
        Scan(W1) == Delete(W1, DelPrevWordLoop(W1.bufs[BufP], StartPos, W.g.CmdMult))
    IN  IF ED_BufferReadOnly(W, BufP) THEN ReadOnlyEcho(W)
        ELSE IF W.g.CmdMultNeg # 0
        THEN ED_CmdDelNextWord([W0 EXCEPT !.g.CmdMultNeg = 0], PaneP)
        ELSE IF StartPos = 0
        THEN ED_FrameSetEchoS(W0, "ED_STR_EchoBegBuf")
        ELSE Scan([W0 EXCEPT !.g.CmdThisId = "ED_KillId",
                             !.bufs[BufP] = ED_BufferPlaceGap(@, StartPos, 0)])

\* ED_BufferGetLineStartPos
RECURSIVE LineStartLoop(_, _)
LineStartLoop(B, CurPos) ==
    LET P == ED_BufferPosToPtr(B, CurPos - 1)
        P2 == BackOverMidUTF8(B.Mem, P)
        C2 == (CurPos - 1) - (P - P2)
    IN  IF MemGet(B.Mem, P2) = 10 THEN C2 + 1
        ELSE IF C2 # 0 THEN LineStartLoop(B, C2)
        ELSE C2

ED_BufferGetLineStartPos(B, OldPos) == IF OldPos = 0 THEN 0 ELSE LineStartLoop(B, OldPos)

\* ED_BufferGetLineEndPos
RECURSIVE ED_BufferGetLineEndPos(_, _)
ED_BufferGetLineEndPos(B, CurPos) ==
    IF CurPos < B.LastPos
    THEN IF ByteAt(B, CurPos) = 10 THEN CurPos
         ELSE ED_BufferGetLineEndPos(B, CurPos + ED_BufferGetUTF8Len(ByteAt(B, CurPos)))
    ELSE CurPos

\* ED_CmdKillLine with a negative count: the loop over the previous lines.
RECURSIVE KillLinePrevLoop(_, _, _)
KillLinePrevLoop(B, StartPos, Mult) ==
    IF Mult = 0 THEN StartPos
    ELSE KillLinePrevLoop(B, IF StartPos > 0
                             THEN ED_BufferGetLineStartPos(B, StartPos - 1)
                             ELSE StartPos, Mult - 1)

\* ED_CmdKillLine with a positive count: the loop over the lines.
RECURSIVE KillLineNextLoop(_, _, _)
KillLineNextLoop(B, EndPos, Mult) ==
    LET AtEnd(E) == IF E < B.LastPos THEN KillLineNextLoop(B, E + 1, Mult - 1) ELSE E
    IN  IF Mult = 0 THEN EndPos
        ELSE AtEnd(ED_BufferGetLineEndPos(B, EndPos))

\* ED_CmdKillLine
ED_CmdKillLine(W, PaneP) ==
    LET BufP == W.panes[PaneP].BufP
        B == W.bufs[BufP]
        Cur == W.panes[PaneP].CursorPos
        Mode == IF W.g.CmdMultCmd = 0 THEN "eol"
                ELSE IF W.g.CmdMult = 0 THEN "bol"
                ELSE IF W.g.CmdMultNeg # 0 THEN "prev"
                ELSE "next"
        Forward == Mode \in {"eol", "next"}
        Kill(StartPos, EndPos) ==
            LET Total == EndPos - StartPos
                Remove(W2) ==
                    [W2 EXCEPT !.bufs[BufP] =
                        ED_BufferUpdateMark([@ EXCEPT !.GapEndP = @ + Total,
                                                      !.LastPos = @ - Total],
                                            StartPos, -Total)]
                Save(W1, Data) ==
                    Remove(ED_KillRingAdd(
                               ED_BufferAddUndoBlock(W1, BufP, StartPos, Total,
                                                     {"DEL", "CHUNK"}, Data),
                               Data, Forward))
                \* W1: the gap is at StartPos.
                Record(W1) ==
                    Save(W1, MemRead(W1.bufs[BufP].Mem, W1.bufs[BufP].GapEndP, Total))
                Update(W4) ==
                    ED_PaneUpdateOtherPanes(W4, PaneP, W4.panes[PaneP].CursorPos, -Total)
            IN  IF Total # 0
                THEN Update(Record(
                         [W EXCEPT !.g.CmdThisId = "ED_KillId",
                                   !.panes[PaneP].CursorPos = IF Forward THEN @ ELSE StartPos,
                                   !.bufs[BufP] =
                                       ED_BufferPlaceGap([@ EXCEPT !.Flags = @ \cup {"MOD"}],
                                                         StartPos, 0)]))
                ELSE W
    IN  IF ED_BufferReadOnly(W, BufP) THEN ReadOnlyEcho(W)
        ELSE IF Forward /\ Cur = B.LastPos THEN ED_FrameSetEchoS(W, "ED_STR_EchoEndBuf")
        ELSE IF ~Forward /\ Cur = 0 THEN ED_FrameSetEchoS(W, "ED_STR_EchoBegBuf")
        ELSE Kill(CASE Mode = "bol" -> ED_BufferGetLineStartPos(B, Cur)
                    [] Mode = "prev" ->
                           KillLinePrevLoop(B, ED_BufferGetLineStartPos(B, Cur), W.g.CmdMult)
                    [] OTHER -> Cur,
                  CASE Mode = "eol" -> IF ByteAt(B, Cur) = 10 THEN Cur + 1
                                       ELSE ED_BufferGetLineEndPos(B, Cur)
                    [] Mode = "next" -> KillLineNextLoop(B, Cur, W.g.CmdMult)
                    [] OTHER -> Cur)

\* ED_CmdKillRegion
ED_CmdKillRegion(W, PaneP) ==
    LET BufP == W.panes[PaneP].BufP
        Cur == W.panes[PaneP].CursorPos
        W1 == [W EXCEPT !.g.CmdThisId = "ED_KillId"]
        \* D is what the first ED_PaneDelSelRange gave.
        AfterSel(D) ==
            IF D.Ret # 0 THEN D.W
            ELSE ED_PaneDelSelRange(
                     [W1 EXCEPT !.g.SelPaneP = PaneP,
                                !.g.SelMarkPos = ED_BufferGetDiffMarkPos(W.bufs[BufP], Cur),
                                !.bufs[BufP] = ED_BufferGetDiffMark(@, Cur)],
                     PaneP, TRUE).W
    IN  IF ED_BufferReadOnly(W, BufP) THEN ReadOnlyEcho(W)
        ELSE AfterSel(ED_PaneDelSelRange(W1, PaneP, TRUE))

\* ED_CmdYank.  XData is what the owner of the CLIPBOARD selection sends when
\* the editor does not own it.
ED_CmdYank(W, PaneP, XData) ==
    LET BufP == W.panes[PaneP].BufP
        W0 == [W EXCEPT !.g.YankIsExternal = 0]
        PopCount == IF W.g.ClipOwn = 0
                    THEN (IF W.g.CmdMultNeg # 0 THEN -W.g.CmdMult ELSE W.g.CmdMult)
                    ELSE (IF W.g.CmdMultNeg # 0 THEN -W.g.CmdMult ELSE W.g.CmdMult - 1)
        Cur == W.panes[PaneP].CursorPos
        StartPos == IF W.g.SelPaneP = PaneP /\ W.g.SelMarkPos < Cur
                    THEN W.g.SelMarkPos ELSE Cur
    IN  IF ED_BufferReadOnly(W, BufP) THEN ReadOnlyEcho(W)
        ELSE IF W.g.ClipOwn = 0 /\ W.g.CmdMultCmd = 0
        THEN [ED_XSelInsertData(W0, PaneP, XData) EXCEPT !.g.YankIsExternal = 1,
                                                         !.g.CmdThisId = "ED_YankId"]
        ELSE
        \* W1: the yank index is set.
        Then([W0 EXCEPT !.kr = ED_KillRingYank(@, PopCount), !.g.CmdMult = 1], LAMBDA W1 :
        [ED_PaneInsertChars(W1, PaneP, KillRingYankData(W1.kr), FALSE)
            EXCEPT !.bufs[BufP] = ED_BufferPushMark(@, StartPos),
                   !.g.CmdThisId = "ED_YankId"])

\* ED_CmdYankPop
ED_CmdYankPop(W, PaneP) ==
    LET BufP == W.panes[PaneP].BufP
        Cur == W.panes[PaneP].CursorPos
        Mark == ED_BufferGetMarkPos(W.bufs[BufP])
        W1 == [W EXCEPT !.g.CmdThisId = "ED_YankId",
                        !.g.SelPaneP = PaneP,
                        !.g.SelMarkPos = Mark]
        PopCount == IF W.g.CmdMultNeg # 0 THEN -W.g.CmdMult ELSE W.g.CmdMult
    IN  IF ED_BufferReadOnly(W, BufP) THEN ReadOnlyEcho(W)
        ELSE IF W.g.CmdLastId # "ED_YankId" THEN W
        ELSE
        \* W2: what was pasted from outside is kept in the kill ring.  B2: the
        \* gap is at the mark; the region is what was pasted.
        Then(IF W.g.YankIsExternal # 0 /\ Mark < Cur
             THEN Then(ED_BufferPlaceGap(W.bufs[BufP], Mark, 0), LAMBDA B2 :
                       ED_KillRingAdd([W1 EXCEPT !.bufs[BufP] = B2],
                                      MemRead(B2.Mem, B2.GapEndP, Cur - Mark), TRUE))
             ELSE W1,
             LAMBDA W2 :
        \* W3: the yank index is set.
        Then([W2 EXCEPT !.g.YankIsExternal = 0,
                        !.kr = ED_KillRingYank(@, PopCount),
                        !.g.CmdMult = 1],
             LAMBDA W3 :
        ED_PaneInsertChars(W3, PaneP, KillRingYankData(W3.kr), FALSE)))

\* ED_CmdModBuffer with unmodify clearing the modified flag only: the next
\* block recorded is not marked as the first modification.
ED_CmdModBuffer_KeepsDirtyUndo(W, PaneP) ==
    LET BufP == W.panes[PaneP].BufP
        SetMod(W1) ==
            ED_FrameSetEchoS(
                [W1 EXCEPT !.bufs[BufP].Flags = (@ \cup {"MOD"}) \ {"CLEANUNDO"}],
                "ED_STR_EchoModFlagSet")
    IN  IF ED_BufferReadOnly(W, BufP) THEN ReadOnlyEcho(W)
        ELSE IF W.g.CmdMultCmd # 0
        THEN SetMod(IF "MOD" \notin W.bufs[BufP].Flags
                    THEN ED_BufferAddUndoBlock(W, BufP, W.panes[PaneP].CursorPos, 0,
                                               {"ADD"}, <<>>)
                    ELSE W)
        ELSE ED_BufferAddUndoBlock(
                 ED_FrameSetEchoS(
                     [W EXCEPT !.bufs[BufP].Flags = @ \ {"MOD"}],
                     "ED_STR_EchoModFlagClear"),
                 BufP, 0, 0, {"ADD", "SAVE"}, <<>>)

\* ED_CmdModBuffer
ED_CmdModBuffer(W, PaneP) ==
    LET BufP == W.panes[PaneP].BufP
        SetMod(W1) ==
            ED_FrameSetEchoS(
                [W1 EXCEPT !.bufs[BufP].Flags = (@ \cup {"MOD"}) \ {"CLEANUNDO"}],
                "ED_STR_EchoModFlagSet")
    IN  IF ED_BufferReadOnly(W, BufP) THEN ReadOnlyEcho(W)
        ELSE IF W.g.CmdMultCmd # 0
        THEN SetMod(IF "MOD" \notin W.bufs[BufP].Flags
                    THEN ED_BufferAddUndoBlock(W, BufP, W.panes[PaneP].CursorPos, 0,
                                               {"ADD"}, <<>>)
                    ELSE W)
        ELSE ED_BufferAddUndoBlock(
                 ED_FrameSetEchoS(
                     [W EXCEPT !.bufs[BufP].Flags = (@ \ {"MOD"}) \cup {"CLEANUNDO"}],
                     "ED_STR_EchoModFlagClear"),
                 BufP, 0, 0, {"ADD", "SAVE"}, <<>>)

\* ED_CmdUndo from the label GetAnother on.
RECURSIVE UndoGetAnother(_, _, _, _)
UndoGetAnother(W, PaneP, DidChain, Total) ==
    LET BufP == W.panes[PaneP].BufP
        NewChain == IF DidChain THEN {"CHAIN"} ELSE {}
        \* R is what ED_BufferUndo gave.
        Replay(R) ==
            LET \* "Reset flags AFTER creating a new Undo block!"
                ResetFlags(WW) ==
                    IF WW.g.UndoSeenSave = 0 /\ "FIRSTMOD" \in R.Op
                    THEN [WW EXCEPT !.bufs[BufP].Flags = (@ \cup {"CLEANUNDO"}) \ {"MOD"}]
                    ELSE [WW EXCEPT !.bufs[BufP].Flags = @ \cup {"MOD"}]
                Done(WW, T) ==
                    ED_PaneUpdateOtherPanes([WW EXCEPT !.panes[PaneP].CursorPos = R.Pos],
                                            PaneP, R.Pos, T)
                Next1(WW, T) ==
                    IF "CHAIN" \in R.Op
                    THEN UndoGetAnother(WW, PaneP, TRUE, T)
                    ELSE Done(WW, T)
                \* Op & ED_UB_ADD: delete the bytes that were added.  A1: the
                \* gap is at the block's position.
                DelAdded(A1) ==
                    ED_BufferAddUndoBlock(
                        A1, BufP, R.Pos, R.Len, {"DEL"} \cup NewChain,
                        MemRead(A1.bufs[BufP].Mem, A1.bufs[BufP].GapEndP, R.Len))
                Shrink(A2) ==
                    ResetFlags([A2 EXCEPT !.bufs[BufP].GapEndP = @ + R.Len,
                                          !.bufs[BufP].LastPos = @ - R.Len])
                \* Op & ED_UB_DEL: add the bytes that were deleted.  D0: the
                \* gap is open at the block's position.
                AddDeleted(D0) ==
                    [D0 EXCEPT !.Mem = MemWrite(D0.Mem, D0.GapStartP, R.Data),
                               !.GapStartP = @ + R.Len,
                               !.LastPos = @ + R.Len]
            IN  IF ~R.Ok THEN R.W
                ELSE IF "ADD" \in R.Op
                THEN IF R.Pos = -1
                     THEN UndoGetAnother(IF "SAVE" \in R.Op
                                         THEN [R.W EXCEPT !.g.UndoSeenSave = 1]
                                         ELSE R.W, PaneP, DidChain, Total)
                     ELSE Next1(Shrink(DelAdded(
                                    [R.W EXCEPT !.bufs[BufP] =
                                        ED_BufferPlaceGap(
                                            ED_BufferUpdateMark(@, R.Pos, -R.Len),
                                            R.Pos, 0)])),
                                Total - R.Len)
                ELSE IF "DEL" \in R.Op
                THEN Next1(ResetFlags(ED_BufferAddUndoBlock(
                                          [R.W EXCEPT !.bufs[BufP] =
                                              AddDeleted(ED_BufferPlaceGap(
                                                  ED_BufferUpdateMark(@, R.Pos, R.Len),
                                                  R.Pos, R.Len))],
                                          BufP, R.Pos, R.Len, {"ADD"} \cup NewChain, <<>>)),
                           Total + R.Len)
                ELSE Done(R.W, Total)
    IN  Replay(ED_BufferUndo(W, BufP))

\* ED_CmdUndo with a read position that is reset before every undo.
ED_CmdUndo_AlwaysRestarts(W, PaneP) ==
    LET W1 == [W EXCEPT !.g.UndoSlabP = NULL, !.g.UndoBlock = 0, !.g.UndoSeenSave = 0]
    IN  IF ED_BufferReadOnly(W, W.panes[PaneP].BufP) THEN ReadOnlyEcho(W)
        ELSE [UndoGetAnother(W1, PaneP, FALSE, 0) EXCEPT !.g.CmdThisId = "ED_UndoId"]

\* ED_CmdUndo
ED_CmdUndo(W, PaneP) ==
    LET W1 == IF W.g.CmdLastId # "ED_UndoId"
              THEN [W EXCEPT !.g.UndoSlabP = NULL, !.g.UndoBlock = 0, !.g.UndoSeenSave = 0]
              ELSE W
    IN  IF ED_BufferReadOnly(W, W.panes[PaneP].BufP) THEN ReadOnlyEcho(W)
        ELSE [UndoGetAnother(W1, PaneP, FALSE, 0) EXCEPT !.g.CmdThisId = "ED_UndoId"]

(***************************************************************************)
(* The dispatcher.  A key sequence is a numeric prefix Arg followed by a   *)
(* command key or by a self-inserting key.  Arg is                         *)
(*   [Mult, Neg, Cmd]: [1,0,0] no prefix, [4,0,1] C-u, [n,0,1] C-u n,      *)
(*   [1,1,1] M-- , [n,1,1] C-u - n.                                        *)
(***************************************************************************)
\* ED_FrameCommandMatch, first key of a sequence: the prefix state is reset
\* and the echo line is cleared; then the prefix keys set the count.
CommandPrefix(W, Arg) ==
    [W EXCEPT !.g.Echo = "",
              !.g.CmdMult = Arg.Mult,
              !.g.CmdMultNeg = Arg.Neg,
              !.g.CmdMultCmd = Arg.Cmd]

\* ED_FrameHandleKey for a self-inserting key: with a prefix typed before it
\* ED_FrameCommandMatch returns 1 and leaves the count in ED_CmdMult, without
\* one the count is whatever ED_CmdMult holds.
HandleInsertKey(W, HasPrefix, Arg, Str) ==
    ED_PaneInsertChars(IF HasPrefix THEN CommandPrefix(W, Arg) ELSE W,
                       W.g.CurPaneP, Str, TRUE)

(***************************************************************************)
(* Query-replace.  The line editor of the query mode is summed up in one   *)
(* step: the user types a response and presses Enter, which calls the      *)
(* callback ED_QRRespFP with the response.  ED_QREPFromLen, ED_QREPToLen   *)
(* and ED_ISStrLen are the lengths of the strings.                         *)
(***************************************************************************)
\* ED_ISCheckMatch from the label DoRest on; K is the index of *MatchP.
RECURSIVE ISCheckMatchRest(_, _, _, _, _, _)
ISCheckMatchRest(W, B, CurP, EndP, K, LoopBack) ==
    IF CurP < EndP
    THEN LET C == MemGet(B.Mem, CurP)
             M == W.g.ISStr[K]
         IN  IF C # M /\ (W.g.ISCaseSen # 0 \/ C < 65 \/ 90 < C \/ C + 32 # M)
             THEN 0
             ELSE IF K = Len(W.g.ISStr) THEN 1
             ELSE ISCheckMatchRest(W, B, CurP + 1, EndP, K + 1, LoopBack)
    ELSE IF LoopBack
    THEN ISCheckMatchRest(W, B, B.GapEndP, B.BufEndP, K, FALSE)
    ELSE 0

\* ED_ISCheckMatch
ED_ISCheckMatch(W, B, Pos) ==
    IF Len(W.g.ISStr) = 0 THEN 0
    ELSE IF Pos >= B.GapStartP
    THEN ISCheckMatchRest(W, B, Pos + (B.GapEndP - B.GapStartP), B.BufEndP, 1, FALSE)
    ELSE ISCheckMatchRest(W, B, Pos, B.GapStartP, 1, TRUE)

\* ED_ISMatchForward: the loop over the positions.
RECURSIVE ISMatchForwardLoop(_, _, _)
ISMatchForwardLoop(W, B, CurPos) ==
    IF CurPos < B.LastPos
    THEN IF ED_ISCheckMatch(W, B, CurPos) = 1 THEN CurPos
         ELSE ISMatchForwardLoop(W, B, CurPos + 1)
    ELSE -1

\* ED_ISMatchForward with a search that begins one byte after StartPos.
ED_ISMatchForward_SkipsStart(W, BufP, StartPos) ==
    LET B == W.bufs[BufP]
    IN  IF W.g.ISDoWrap # 0 THEN ISMatchForwardLoop(W, B, 0)
        ELSE IF StartPos < 0 THEN ISMatchForwardLoop(W, B, 0)
        ELSE IF StartPos >= B.LastPos THEN -1
        ELSE ISMatchForwardLoop(W, B, StartPos + 1)

\* ED_ISMatchForward without the restart at position 0 when a wrap is pending.
ED_ISMatchForward_NoWrap(W, BufP, StartPos) ==
    LET B == W.bufs[BufP]
    IN  IF StartPos < 0 THEN ISMatchForwardLoop(W, B, 0)
        ELSE IF StartPos >= B.LastPos THEN -1
        ELSE ISMatchForwardLoop(W, B, StartPos)

\* ED_ISMatchForward: the value returned; the call clears ED_ISDoWrap.
ED_ISMatchForward(W, BufP, StartPos) ==
    LET B == W.bufs[BufP]
    IN  IF W.g.ISDoWrap # 0 THEN ISMatchForwardLoop(W, B, 0)
        ELSE IF StartPos < 0 THEN ISMatchForwardLoop(W, B, 0)
        ELSE IF StartPos >= B.LastPos THEN -1
        ELSE ISMatchForwardLoop(W, B, StartPos)

ED_ISSTRLEN == 128

\* The value that stands for a backward scan that left the buffer: a scan
\* begun below position 0 reads the bytes before BufStartP and counts down
\* without meeting 0, so what it returns, and whether it returns, is
\* undefined.  No run is followed beyond such a scan.
ISOutside == -2

\* ED_ISMatchBackward: the loop over the positions, while (CurPos): position
\* 0 is never tested, and a negative position is.
RECURSIVE ISMatchBackwardLoop(_, _, _)
ISMatchBackwardLoop(W, B, CurPos) ==
    IF CurPos = 0 THEN -1
    ELSE IF CurPos < 0 THEN ISOutside
    ELSE IF ED_ISCheckMatch(W, B, CurPos) = 1 THEN CurPos
    ELSE ISMatchBackwardLoop(W, B, CurPos - 1)

\* ED_ISMatchBackward: the value returned; the call clears ED_ISDoWrap.  On
\* the wrapped retry the loop starts at LastPos - ED_ISStrLen without a test
\* of its sign.
ED_ISMatchBackward(W, BufP, StartPos) ==
    LET B == W.bufs[BufP]
        CurPos == StartPos - 1
    IN  IF W.g.ISDoWrap # 0 THEN ISMatchBackwardLoop(W, B, B.LastPos - Len(W.g.ISStr))
        ELSE IF CurPos < 0
        THEN IF B.LastPos - Len(W.g.ISStr) < 0 THEN -1
             ELSE ISMatchBackwardLoop(W, B, B.LastPos - Len(W.g.ISStr))
        ELSE IF CurPos > B.LastPos - Len(W.g.ISStr) THEN -1
        ELSE ISMatchBackwardLoop(W, B, CurPos)

\* ED_ISNewMatch
ED_ISNewMatch(W, GoAfter) ==
    LET BufP == W.panes[W.g.ISPaneP].BufP
        W1 == IF W.g.ISSearchPos = -1
              THEN [W EXCEPT !.g.ISSearchPos = W.g.ISOriginPos] ELSE W
        Found(W2, NewMatchPos, Msg, FailMsg) ==
            IF NewMatchPos = -1
            THEN [ED_FrameSetEchoS(W2, FailMsg) EXCEPT !.g.ISDoWrap = 1]
            ELSE [ED_FrameSetEchoS(W2, Msg) EXCEPT !.g.ISDoWrap = 0,
                                                   !.g.ISMatchPos = NewMatchPos,
                                                   !.g.ISSearchPos = NewMatchPos,
                                                   !.g.ISPrevStr = W2.g.ISStr]
        Forward(W2) ==
            Found(W2, ED_ISMatchForward(W2, BufP, W2.g.ISSearchPos),
                  "ED_STR_EchoIS", "ED_STR_EchoISFail")
        Backward(W2) ==
            Found(W2, ED_ISMatchBackward(W2, BufP, W2.g.ISSearchPos),
                  "ED_STR_EchoISBack", "ED_STR_EchoISBackFail")
    IN  IF W.g.ISDir > 0
        THEN Forward([W1 EXCEPT !.g.ISSearchPos =
                                    IF GoAfter # 0 THEN @ + Len(W.g.ISStr) ELSE @])
        ELSE Backward([W1 EXCEPT !.g.ISSearchPos = IF GoAfter # 0 THEN @ - 1 ELSE @])

\* ED_ISUpdate
ED_ISUpdate(W, SetMark) ==
    LET PP == W.g.ISPaneP
        BufP == W.panes[PP].BufP
        W1 == IF W.g.ISDoWrap # 0
              THEN ED_FrameSetEchoS(W, IF W.g.ISDir > 0 THEN "ED_STR_EchoISFail"
                                       ELSE "ED_STR_EchoISBackFail")
              ELSE [ED_FrameSetEchoS(W, IF W.g.ISDir > 0 THEN "ED_STR_EchoIS"
                                        ELSE "ED_STR_EchoISBack")
                      EXCEPT !.panes[PP].CursorPos =
                          IF W.g.ISMatchPos >= 0
                          THEN IF W.g.ISDir > 0 THEN W.g.ISMatchPos + Len(W.g.ISStr)
                               ELSE W.g.ISMatchPos
                          ELSE @]
    IN  IF W.g.ISDir = 0
        THEN IF SetMark # 0
             THEN ED_FrameSetEchoS(
                      [W EXCEPT !.g.ISPaneP = NULL,
                                !.bufs[BufP] = ED_BufferPushMark(@, W.g.ISOriginPos)],
                      "ED_STR_EchoSearchOriginMark")
             ELSE [W EXCEPT !.g.ISPaneP = NULL, !.g.Echo = ""]
        ELSE IF Len(W.g.ISStr) = 0
        THEN [W1 EXCEPT !.g.ISMatchPos = -1, !.panes[PP].CursorPos = W.g.ISOriginPos]
        ELSE W1

\* ED_ISHandleChars: the state after the call and the value returned.  Key is
\* the key with its modifiers; a key that inserts sends the bytes Str.
ED_ISHandleChars(W, Key, Str) ==
    LET PP == W.g.ISPaneP
        GoodReturn(W1) == [W |-> ED_ISUpdate(W1, 1), Ret |-> 1]
        BadReturn(W1) == [W |-> W1, Ret |-> 0]
        Again(W1, Dir, Pos) ==
            IF W1.g.ISDir = -Dir
            THEN [W1 EXCEPT !.g.ISDir = Dir, !.g.ISDoWrap = 0]
            ELSE IF Len(W1.g.ISStr) = 0
            THEN ED_ISNewMatch([W1 EXCEPT !.g.ISStr = W1.g.ISPrevStr,
                                          !.g.ISMatchPos = -1,
                                          !.g.ISSearchPos = Pos], 0)
            ELSE ED_ISNewMatch(W1, 1)
    IN  CASE Key = "M-x" -> BadReturn(ED_ISUpdate([W EXCEPT !.g.ISDir = 0], 1))
          [] Key = "C-s" -> GoodReturn(Again(W, 1, W.panes[PP].CursorPos))
          [] Key = "C-r" ->
                GoodReturn(Again(W, -1, W.panes[PP].CursorPos - Len(W.g.ISPrevStr)))
          [] Key = "C-g" -> BadReturn(ED_ISUpdate([W EXCEPT !.g.ISDir = 0], 0))
          [] Key \in {"C-a", "C-u", "C-x"} ->
                BadReturn(ED_ISUpdate([W EXCEPT !.g.ISDir = 0], 1))
          [] Key = "Return" ->
                GoodReturn([W EXCEPT !.g.ISPrevStr = W.g.ISStr, !.g.ISDir = 0])
          [] Key = "Backspace" ->
                IF Len(W.g.ISStr) > 0
                THEN LET W1 == [W EXCEPT !.g.ISStr = SubSeq(@, 1, Len(@) - 1),
                                         !.g.ISMatchPos = -1,
                                         !.g.ISSearchPos = W.g.ISOriginPos]
                     IN  GoodReturn(IF Len(W1.g.ISStr) > 0 THEN ED_ISNewMatch(W1, 0)
                                    ELSE W1)
                ELSE GoodReturn(W)
          [] OTHER ->
                LET W1 == IF 65 <= Str[1] /\ Str[1] <= 90
                          THEN [W EXCEPT !.g.ISCaseSen = 1] ELSE W
                IN  IF Len(W.g.ISStr) + Len(Str) + 1 < ED_ISSTRLEN
                    THEN GoodReturn(ED_ISNewMatch([W1 EXCEPT !.g.ISStr = @ \o Str], 0))
                    ELSE GoodReturn(W1)

\* ED_CmdISearch
ED_CmdISearch(W, PaneP) ==
    ED_FrameSetEchoS([W EXCEPT !.g.ISPaneP = PaneP,
                               !.g.ISDir = 1,
                               !.g.ISStr = <<>>,
                               !.g.ISCaseSen = 0,
                               !.g.ISDoWrap = 0,
                               !.g.ISMatchPos = -1,
                               !.g.ISSearchPos = -1,
                               !.g.ISOriginPos = W.panes[PaneP].CursorPos],
                     "ED_STR_EchoIS")

\* ED_CmdISearchBack
ED_CmdISearchBack(W, PaneP) ==
    ED_FrameSetEchoS([W EXCEPT !.g.ISPaneP = PaneP,
                               !.g.ISDir = -1,
                               !.g.ISStr = <<>>,
                               !.g.ISCaseSen = 0,
                               !.g.ISDoWrap = 0,
                               !.g.ISMatchPos = -1,
                               !.g.ISSearchPos = -1,
                               !.g.ISOriginPos = W.panes[PaneP].CursorPos],
                     "ED_STR_EchoISBack")

\* ED_QREPPaneUpdate
ED_QREPPaneUpdate(W, Incremental) ==
    LET DeltaLen == Len(W.g.QREPToStr) - Len(W.g.QREPFromStr)
    IN  [W EXCEPT !.panes[W.g.QREPPaneP].CursorPos =
            IF Incremental THEN @ + DeltaLen ELSE W.g.ISSearchPos + DeltaLen]

\* ED_QREPSearchUpdate
ED_QREPSearchUpdate(W, MatchPos) ==
    IF MatchPos = -1
    THEN LET W1 == ED_FrameSetEchoS(W, "ED_STR_EchoQueryReplaceDone")
             W2 == IF W1.g.QREPDoAll # 0 THEN ED_QREPPaneUpdate(W1, FALSE) ELSE W1
         IN  [W2 EXCEPT !.g.ISPaneP = NULL, !.g.QREPPaneP = NULL]
    ELSE [W EXCEPT !.g.ISMatchPos = MatchPos,
                   !.g.ISSearchPos = MatchPos + Len(W.g.ISStr),
                   !.panes[W.g.QREPPaneP].CursorPos = MatchPos + Len(W.g.ISStr)]

\* ED_QREPReplace
ED_QREPReplace(W) ==
    LET PP == W.g.QREPPaneP
        BufP == W.panes[PP].BufP
        FromLen == Len(W.g.QREPFromStr)
        ToLen == Len(W.g.QREPToStr)
        StartPos == W.g.ISMatchPos
        DeltaLen == ToLen - FromLen
        Finish(W9) == IF W9.g.QREPDoAll # 0 THEN W9 ELSE ED_QREPPaneUpdate(W9, TRUE)
        Others(W8) ==
            Finish(IF W8.bufs[BufP].PaneRefCount > 1
                   THEN ED_PaneUpdateOtherPanes(W8, PP, StartPos, DeltaLen)
                   ELSE W8)
        \* W6: the ADD block is written; copy the to-string in.
        CopyIn(W6) ==
            [W6 EXCEPT !.bufs[BufP].Mem = MemWrite(@, W6.bufs[BufP].GapStartP, W.g.QREPToStr),
                       !.bufs[BufP].GapStartP = @ + ToLen,
                       !.bufs[BufP].LastPos = @ + ToLen]
        \* W5: the from-string is out of the buffer.
        Add(W5) ==
            Others([(IF ToLen # 0
                     THEN CopyIn(ED_BufferAddUndoBlock(W5, BufP, StartPos, ToLen,
                                                       {"ADD", "CHUNK", "CHAIN"}, <<>>))
                     ELSE W5)
                       EXCEPT !.g.ISSearchPos = W.g.ISMatchPos + ToLen])
        Remove(W4) ==
            Add([W4 EXCEPT !.bufs[BufP].GapEndP = @ + FromLen,
                           !.bufs[BufP].LastPos = @ - FromLen])
        \* W3: the DEL block is written.
        Kill(W3, Data) ==
            Remove(IF W3.g.QREPCount = 1 THEN ED_KillRingAdd(W3, Data, TRUE) ELSE W3)
        Save(W1, Data) ==
            Kill([ED_BufferAddUndoBlock(W1, BufP, StartPos, FromLen, {"DEL", "CHUNK"}, Data)
                     EXCEPT !.bufs[BufP].Flags = @ \cup {"MOD"}],
                 Data)
        \* W1: the gap is at the match.
        Record(W1) ==
            Save(W1, MemRead(W1.bufs[BufP].Mem, W1.bufs[BufP].GapEndP, FromLen))
    IN  Record([W EXCEPT !.g.QREPCount = @ + 1,
                         !.bufs[BufP] = ED_BufferPlaceGap(@, StartPos, DeltaLen)])

\* ED_QREPHandleChars, case '!': the do-while loop.
RECURSIVE QREPReplaceAll(_)
QREPReplaceAll(W) ==
    LET Loop(W2, MatchPos) == IF MatchPos > 0 THEN QREPReplaceAll(W2) ELSE W2
        Update(W1, MatchPos) ==
            Loop(ED_QREPSearchUpdate([W1 EXCEPT !.g.ISDoWrap = 0], MatchPos), MatchPos)
        \* W1: one more match is replaced.
        Search(W1) ==
            Update(W1, ED_ISMatchForward(W1, W1.panes[W1.g.QREPPaneP].BufP,
                                         W1.g.ISSearchPos))
    IN  Search(ED_QREPReplace([W EXCEPT !.g.QREPDoAll = 1]))

\* ED_QREPHandleChars for a key without modifiers; every other key only
\* flashes the frame.
ED_QREPHandleChars(W, SymChar) ==
    CASE SymChar \in {"y", "n"} ->
            Then(IF SymChar = "y" THEN ED_QREPReplace(W) ELSE W, LAMBDA WW :
            ED_QREPSearchUpdate(
                [WW EXCEPT !.g.ISDoWrap = 0],
                ED_ISMatchForward(WW, W.panes[W.g.QREPPaneP].BufP, WW.g.ISSearchPos)))
      [] SymChar = "Enter" ->
            ED_QREPSearchUpdate(
                IF W.g.ISPaneP # NULL
                THEN [W EXCEPT !.bufs[W.panes[W.g.QREPPaneP].BufP] =
                                   ED_BufferPushMark(@, W.g.ISOriginPos)]
                ELSE W, -1)
      [] SymChar = "." -> ED_QREPSearchUpdate(ED_QREPReplace(W), -1)
      [] SymChar = "!" -> QREPReplaceAll(W)
      [] OTHER -> W

\* ED_QREPStart
ED_QREPStart(W) ==
    LET PP == W.g.QRPaneP
        Cur == W.panes[PP].CursorPos
        Search(W1) ==
            ED_QREPSearchUpdate([W1 EXCEPT !.g.ISDoWrap = 0],
                                ED_ISMatchForward(W1, W1.panes[PP].BufP, W1.g.ISSearchPos))
    IN  Search(ED_FrameSetEchoS(
                  [W EXCEPT !.g.QREPPaneP = PP,
                            !.g.QREPPrevFromStr = W.g.QREPFromStr,
                            !.g.QREPPrevToStr = W.g.QREPToStr,
                            !.g.QRPaneP = NULL,
                            !.g.ISPaneP = PP,
                            !.g.ISDir = 1,
                            !.g.ISStr = W.g.QREPFromStr,
                            !.g.ISMatchPos = -1,
                            !.g.ISSearchPos = Cur,
                            !.g.ISOriginPos = Cur,
                            !.g.ISCaseSen =
                                IF \E I \in 1 .. Len(W.g.QREPFromStr) :
                                       65 <= W.g.QREPFromStr[I] /\ W.g.QREPFromStr[I] < 90
                                THEN 1 ELSE 0],
                  "ED_STR_EchoQueryReplace"))

\* ED_FrameQRAsk
ED_FrameQRAsk(W, RespFP) == [W EXCEPT !.g.QRPaneP = W.g.CurPaneP, !.g.QRRespFP = RespFP]

\* EDCB_QREPFunc2: the state after the call and the value returned.
EDCB_QREPFunc2(W, Resp) ==
    [W |-> ED_QREPStart(IF Len(Resp) > 0 THEN [W EXCEPT !.g.QREPToStr = Resp] ELSE W),
     Ret |-> 0]

\* EDCB_QREPFunc1: the state after the call and the value returned.
EDCB_QREPFunc1(W, Resp) ==
    IF Len(Resp) = 0
    THEN IF W.g.QREPPrevFromStr = <<>>
         THEN [W |-> W, Ret |-> 1]
         ELSE [W |-> ED_QREPStart([W EXCEPT !.g.QREPFromStr = W.g.QREPPrevFromStr,
                                            !.g.QREPToStr = W.g.QREPPrevToStr]),
               Ret |-> 0]
    ELSE [W |-> ED_FrameQRAsk([W EXCEPT !.g.QREPFromStr = Resp], "EDCB_QREPFunc2"),
          Ret |-> 0]

\* ED_CmdQueryReplace
ED_CmdQueryReplace(W, PaneP) ==
    IF ED_BufferReadOnly(W, W.panes[PaneP].BufP) THEN ReadOnlyEcho(W)
    ELSE ED_FrameQRAsk([W EXCEPT !.g.SelPaneP = NULL,
                                 !.g.QREPPaneP = NULL,
                                 !.g.QREPFromStr = <<>>,
                                 !.g.QREPToStr = <<>>,
                                 !.g.QREPCount = 0,
                                 !.g.QREPDoAll = 0],
                       "EDCB_QREPFunc1")

\* The function a name of the registry stands for; the names typed in answer
\* to M-x are these, typed in full, or a name no function has.
NamedFuncP(Name) ==
    CASE Name = "exec-named-cmd" -> "ED_CmdExecNamedCmd"
      [] Name = "kill-line" -> "ED_CmdKillLine"
      [] Name = "quit" -> "ED_CmdQuitAction"
      [] OTHER -> "NULL"

\* EDCB_ExecNamedCmdFunc: the state after the call and the value returned.
EDCB_ExecNamedCmdFunc(W, Resp) ==
    LET PaneP == W.g.QRPaneP
        FuncP == NamedFuncP(Resp)
        W1 == [W EXCEPT !.g.QRPaneP = NULL]
    IN  IF FuncP = "NULL" THEN [W |-> W, Ret |-> 1]
        ELSE IF FuncP = "ED_CmdExecNamedCmd"
        THEN [W |-> ED_FrameSetEchoS(W1, "ED_STR_EchoExecSelf"), Ret |-> 0]
        ELSE
        \* W3: the function was called.
        Then(IF FuncP = "ED_CmdKillLine"
             THEN ED_CmdKillLine([W1 EXCEPT !.g.CmdThisId = FuncP], PaneP)
             ELSE ED_CmdQuitAction([W1 EXCEPT !.g.CmdThisId = FuncP], PaneP),
             LAMBDA W3 :
        [W |-> [W3 EXCEPT !.g.CmdLastId = W3.g.CmdThisId, !.g.CmdMult = 1], Ret |-> 0])

\* ED_CmdExecNamedCmd without the assignment of ED_ExecId to ED_CmdThisId.
ED_CmdExecNamedCmd_NoExecId(W, PaneP) == ED_FrameQRAsk(W, "EDCB_ExecNamedCmdFunc")

\* ED_CmdExecNamedCmd
ED_CmdExecNamedCmd(W, PaneP) ==
    [ED_FrameQRAsk(W, "EDCB_ExecNamedCmdFunc") EXCEPT !.g.CmdThisId = "ED_ExecId"]

\* ED_FrameQRHandleChars for Enter after the response Resp was typed.
ED_FrameQRHandleChars(W, Resp) ==
    Then(IF W.g.QRRespFP = "EDCB_QREPFunc1" THEN EDCB_QREPFunc1(W, Resp)
         ELSE IF W.g.QRRespFP = "EDCB_QREPFunc2" THEN EDCB_QREPFunc2(W, Resp)
         ELSE EDCB_ExecNamedCmdFunc(W, Resp),
         LAMBDA R :
    IF R.Ret # 0
    THEN [W EXCEPT !.g.QRLastCmd = "ED_QRBadCmd"]
    ELSE [R.W EXCEPT !.g.QRLastCmd = "ED_QRSomeCmd"])

\* ED_FrameCommandMatch, a perfect match, up to the call through
\* FBindP->FuncP: the state the function bound to the key is called in.
\* FuncId is the address of the function.
ED_FrameCommandMatch(W, Arg, Shift, FuncId) ==
    [CommandPrefix(W, Arg) EXCEPT !.g.CmdShift = Shift, !.g.CmdThisId = FuncId]

\* ED_FrameCommandMatch after the call: W2 is the state the function
\* returned in.
CommandReturn(W2) ==
    IF W2.g.CmdThisId # "ED_ExecId"
    THEN [W2 EXCEPT !.g.CmdLastId = W2.g.CmdThisId,
                    !.g.CmdMult = 1, !.g.CmdMultNeg = 0, !.g.CmdMultCmd = 0]
    ELSE [W2 EXCEPT !.g.CmdLastId = W2.g.CmdThisId]

(***************************************************************************)
(* The dispatcher key by key.  ED_CmdStr holds the bytes of the keys typed *)
(* so far in a sequence (ED_CmdLen is its length), and the bindings are    *)
(* the sorted list ED_FRegNewBinding builds; ED_CmdBindP is an index into  *)
(* it.  The list holds the bindings of ED_EditorInit that begin with C-x   *)
(* and those of C-g, C-r, C-s, M-% and M-x.                                *)
(***************************************************************************)
Bindings ==
    << [KeyStr |-> <<22, 103>>, FuncP |-> "ED_CmdQuitAction"],
       [KeyStr |-> <<22, 114>>, FuncP |-> "ED_CmdISearchBack"],
       [KeyStr |-> <<22, 115>>, FuncP |-> "ED_CmdISearch"],
       [KeyStr |-> <<22, 120, 22, 98>>, FuncP |-> "ED_CmdPopUpBufferList"],
       [KeyStr |-> <<22, 120, 22, 99>>, FuncP |-> "ED_CmdExit"],
       [KeyStr |-> <<22, 120, 22, 102>>, FuncP |-> "ED_CmdFindFile"],
       [KeyStr |-> <<22, 120, 22, 115>>, FuncP |-> "ED_CmdSaveFile"],
       [KeyStr |-> <<22, 120, 22, 119>>, FuncP |-> "ED_CmdWriteFile"],
       [KeyStr |-> <<22, 120, 22, 120>>, FuncP |-> "ED_CmdExchMark"],
       [KeyStr |-> <<22, 120, 48>>, FuncP |-> "ED_CmdKillPane"],
       [KeyStr |-> <<22, 120, 49>>, FuncP |-> "ED_CmdKillOtherPanes"],
       [KeyStr |-> <<22, 120, 50>>, FuncP |-> "ED_CmdSplitPane"],
       [KeyStr |-> <<22, 120, 53, 48>>, FuncP |-> "ED_CmdDeleteFrame"],
       [KeyStr |-> <<22, 120, 53, 49>>, FuncP |-> "ED_CmdDeleteOtherFrames"],
       [KeyStr |-> <<22, 120, 53, 50>>, FuncP |-> "ED_CmdNewFrame"],
       [KeyStr |-> <<22, 120, 53, 111>>, FuncP |-> "ED_CmdOtherFrame"],
       [KeyStr |-> <<22, 120, 61>>, FuncP |-> "ED_CmdGetCursorInfo"],
       [KeyStr |-> <<22, 120, 98>>, FuncP |-> "ED_CmdSwitchBuffer"],
       [KeyStr |-> <<22, 120, 104>>, FuncP |-> "ED_CmdSelectAll"],
       [KeyStr |-> <<22, 120, 105>>, FuncP |-> "ED_CmdInsertFile"],
       [KeyStr |-> <<22, 120, 107>>, FuncP |-> "ED_CmdKillBuffer"],
       [KeyStr |-> <<22, 120, 111>>, FuncP |-> "ED_CmdGoNextPane"],
       [KeyStr |-> <<22, 120, 115>>, FuncP |-> "ED_CmdSaveSomeFiles"],
       [KeyStr |-> <<22, 120, 117>>, FuncP |-> "ED_CmdUndo"],
       [KeyStr |-> <<23, 37>>, FuncP |-> "ED_CmdQueryReplace"],
       [KeyStr |-> <<23, 120>>, FuncP |-> "ED_CmdExecNamedCmd"] >>

ED_FirstBindP == 1

\* ED_FRegBindCompare
RECURSIVE ED_FRegBindCompare(_, _)
ED_FRegBindCompare(Entry, KeyStr) ==
    IF Entry # <<>> /\ KeyStr # <<>>
    THEN IF Entry[1] < KeyStr[1] THEN -1
         ELSE IF Entry[1] > KeyStr[1] THEN 0
         ELSE ED_FRegBindCompare(Tail(Entry), Tail(KeyStr))
    ELSE IF Entry # <<>> THEN -1
    ELSE IF KeyStr # <<>> THEN 1
    ELSE 99

\* ED_FRegFindBinding that gives up at the first binding that differs.
ED_FRegFindBinding_FirstOnly(StartBP, KeyStr) ==
    IF StartBP <= Len(Bindings)
    THEN LET Res == ED_FRegBindCompare(KeyStr, Bindings[StartBP].KeyStr)
         IN  [Res |-> IF Res = 0 THEN -1 ELSE Res, BindP |-> StartBP]
    ELSE [Res |-> -1, BindP |-> StartBP]

\* ED_FRegFindBinding: the value returned and *StartBPP after the call (the
\* end of the list is the index after the last binding).
RECURSIVE ED_FRegFindBinding(_, _)
ED_FRegFindBinding(StartBP, KeyStr) ==
    IF StartBP <= Len(Bindings)
    THEN LET Res == ED_FRegBindCompare(KeyStr, Bindings[StartBP].KeyStr)
         IN  IF Res # 0 THEN [Res |-> Res, BindP |-> StartBP]
             ELSE ED_FRegFindBinding(StartBP + 1, KeyStr)
    ELSE [Res |-> -1, BindP |-> StartBP]

\* The bytes ED_FrameCommandMatch adds to ED_CmdStr for a key.
KeyBytes(Key) ==
    CASE Key = "C-g" -> <<22, 103>>
      [] Key = "C-u" -> <<22, 117>>
      [] Key = "C-x" -> <<22, 120>>
      [] Key = "M--" -> <<23, 45>>
      [] Key = "M-2" -> <<23, 50>>
      [] Key = "-" -> <<45>>
      [] Key = "0" -> <<48>>
      [] Key = "2" -> <<50>>
      [] Key = "5" -> <<53>>

\* ED_FrameCommandMatch for one key, up to the call of the function bound to
\* the sequence: the state, the value returned (-1 when the function is still
\* to be called), and the function.
\* The most digits a prefix argument takes (ED_FrameCommandMatch).
ED_PrefixDigits == 5

ED_FrameCommandMatchKey_SumsDigits(W, Key) ==
    LET NewI == Len(W.g.CmdStr)
        C == KeyBytes(Key)[Len(KeyBytes(Key))]
        IsDigit == 48 <= C /\ C <= 57
    IN  \* W2: the bytes of the key are in ED_CmdStr.
        Then([(IF NewI = 0
               THEN [W EXCEPT !.g.CmdBindP = ED_FirstBindP,
                              !.g.Echo = "",
                              !.g.CmdMult = 1, !.g.CmdMultCmd = 0, !.g.CmdMultNeg = 0,
                              !.g.CmdMultDigit = 0, !.g.CmdMultIn = 0, !.g.CmdMultLen = 0]
               ELSE W) EXCEPT !.g.CmdStr = @ \o KeyBytes(Key)],
             LAMBDA W2 :
        \* W3: a key that begins a prefix argument was looked at.
        Then(IF NewI # 0 THEN W2
             ELSE IF Key = "C-u"
             THEN [W2 EXCEPT !.g.CmdMult = 0, !.g.CmdMultCmd = 1, !.g.CmdMultIn = 1]
             ELSE IF KeyBytes(Key)[1] = 23 /\ C = 45
             THEN [W2 EXCEPT !.g.CmdMult = 0, !.g.CmdMultCmd = 1, !.g.CmdMultNeg = 1,
                             !.g.CmdMultIn = 1]
             ELSE IF KeyBytes(Key)[1] = 23 /\ IsDigit
             THEN [W2 EXCEPT !.g.CmdMult = C - 48, !.g.CmdMultCmd = 1,
                             !.g.CmdMultDigit = 1, !.g.CmdMultIn = 1]
             ELSE W2,
             LAMBDA W3 :
        \* P: a key typed within a prefix argument was looked at; Ret is the value
        \* returned there, or -1 to go on.
        Then(IF W3.g.CmdMultIn = 0 \/ NewI = 0 THEN [W |-> W3, Ret |-> -1]
             ELSE IF W3.g.CmdStr[NewI + 1] = 45
             THEN IF W3.g.CmdMultDigit = 0 /\ W3.g.CmdMultNeg = 0
                  THEN [W |-> [W3 EXCEPT !.g.CmdMultNeg = 1], Ret |-> -1]
                  ELSE [W |-> [W3 EXCEPT !.g.CmdStr = <<>>], Ret |-> 1]
             ELSE IF IsDigit
             THEN IF W3.g.CmdMultDigit + 1 > ED_PrefixDigits
                  THEN [W |-> [W3 EXCEPT !.g.CmdMultDigit = @ + 1,
                                         !.g.CmdMult = @ + (C - 48),
                                         !.g.Echo = "ED_STR_EchoCmdBadNum",
                                         !.g.CmdStr = <<>>],
                        Ret |-> 0]
                  ELSE [W |-> [W3 EXCEPT !.g.CmdStr = SubSeq(@, 1, NewI) \o <<C>>,
                                         !.g.CmdMultDigit = @ + 1,
                                         !.g.CmdMult = @ + (C - 48)],
                        Ret |-> -1]
             ELSE IF 25 < W3.g.CmdStr[NewI + 1] \/ W3.g.CmdStr[NewI + 1] < 21
             THEN [W |-> [W3 EXCEPT !.g.CmdMultIn = 0,
                                    !.g.CmdMult = IF W3.g.CmdMultDigit = 0
                                                  THEN IF W3.g.CmdMultNeg # 0 THEN 1 ELSE 4
                                                  ELSE @,
                                    !.g.CmdStr = <<>>],
                   Ret |-> 1]
             ELSE [W |-> [W3 EXCEPT !.g.CmdMultIn = 0,
                                    !.g.CmdMult = IF W3.g.CmdMultDigit = 0
                                                  THEN IF W3.g.CmdMultNeg # 0 THEN 1 ELSE 4
                                                  ELSE @],
                   Ret |-> -1],
             LAMBDA P :
        IF P.Ret # -1 THEN [W |-> P.W, Ret |-> P.Ret, FuncP |-> ""]
        ELSE IF P.W.g.CmdMultIn # 0
        THEN [W |-> [P.W EXCEPT !.g.CmdMultLen = Len(P.W.g.CmdStr)], Ret |-> 0, FuncP |-> ""]
        ELSE
        \* F: what ED_FRegFindBinding gave.
        Then(ED_FRegFindBinding(P.W.g.CmdBindP,
                                SubSeq(P.W.g.CmdStr, P.W.g.CmdMultLen + 1, Len(P.W.g.CmdStr))),
             LAMBDA F :
        IF F.Res = 1
        THEN [W |-> [P.W EXCEPT !.g.CmdBindP = F.BindP], Ret |-> 0, FuncP |-> ""]
        ELSE IF F.Res < 0
        THEN [W |-> [P.W EXCEPT !.g.CmdBindP = F.BindP,
                                !.g.Echo = "ED_STR_EchoCmdMatchFail",
                                !.g.CmdStr = <<>>],
              Ret |-> 0, FuncP |-> ""]
        ELSE [W |-> [P.W EXCEPT !.g.CmdBindP = F.BindP,
                                !.g.CmdStr = <<>>,
                                !.g.CmdShift = 0,
                                !.g.CmdThisId = Bindings[F.BindP].FuncP],
              Ret |-> -1, FuncP |-> Bindings[F.BindP].FuncP]))))

ED_FrameCommandMatchKey(W, Key) ==
    LET NewI == Len(W.g.CmdStr)
        C == KeyBytes(Key)[Len(KeyBytes(Key))]
        IsDigit == 48 <= C /\ C <= 57
    IN  \* W2: the bytes of the key are in ED_CmdStr.
        Then([(IF NewI = 0
               THEN [W EXCEPT !.g.CmdBindP = ED_FirstBindP,
                              !.g.Echo = "",
                              !.g.CmdMult = 1, !.g.CmdMultCmd = 0, !.g.CmdMultNeg = 0,
                              !.g.CmdMultDigit = 0, !.g.CmdMultIn = 0, !.g.CmdMultLen = 0]
               ELSE W) EXCEPT !.g.CmdStr = @ \o KeyBytes(Key)],
             LAMBDA W2 :
        \* W3: a key that begins a prefix argument was looked at.
        Then(IF NewI # 0 THEN W2
             ELSE IF Key = "C-u"
             THEN [W2 EXCEPT !.g.CmdMult = 0, !.g.CmdMultCmd = 1, !.g.CmdMultIn = 1]
             ELSE IF KeyBytes(Key)[1] = 23 /\ C = 45
             THEN [W2 EXCEPT !.g.CmdMult = 0, !.g.CmdMultCmd = 1, !.g.CmdMultNeg = 1,
                             !.g.CmdMultIn = 1]
             ELSE IF KeyBytes(Key)[1] = 23 /\ IsDigit
             THEN [W2 EXCEPT !.g.CmdMult = C - 48, !.g.CmdMultCmd = 1,
                             !.g.CmdMultDigit = 1, !.g.CmdMultIn = 1]
             ELSE W2,
             LAMBDA W3 :
        \* P: a key typed within a prefix argument was looked at; Ret is the value
        \* returned there, or -1 to go on.
        Then(IF W3.g.CmdMultIn = 0 \/ NewI = 0 THEN [W |-> W3, Ret |-> -1]
             ELSE IF W3.g.CmdStr[NewI + 1] = 45
             THEN IF W3.g.CmdMultDigit = 0 /\ W3.g.CmdMultNeg = 0
                  THEN [W |-> [W3 EXCEPT !.g.CmdMultNeg = 1], Ret |-> -1]
                  ELSE [W |-> [W3 EXCEPT !.g.CmdStr = <<>>], Ret |-> 1]
             ELSE IF IsDigit
             THEN IF W3.g.CmdMultDigit + 1 > ED_PrefixDigits
                  THEN [W |-> [W3 EXCEPT !.g.CmdMultDigit = @ + 1,
                                         !.g.CmdMult = @ * 10 + (C - 48),
                                         !.g.Echo = "ED_STR_EchoCmdBadNum",
                                         !.g.CmdStr = <<>>],
                        Ret |-> 0]
                  ELSE [W |-> [W3 EXCEPT !.g.CmdStr = SubSeq(@, 1, NewI) \o <<C>>,
                                         !.g.CmdMultDigit = @ + 1,
                                         !.g.CmdMult = @ * 10 + (C - 48)],
                        Ret |-> -1]
             ELSE IF 25 < W3.g.CmdStr[NewI + 1] \/ W3.g.CmdStr[NewI + 1] < 21
             THEN [W |-> [W3 EXCEPT !.g.CmdMultIn = 0,
                                    !.g.CmdMult = IF W3.g.CmdMultDigit = 0
                                                  THEN IF W3.g.CmdMultNeg # 0 THEN 1 ELSE 4
                                                  ELSE @,
                                    !.g.CmdStr = <<>>],
                   Ret |-> 1]
             ELSE [W |-> [W3 EXCEPT !.g.CmdMultIn = 0,
                                    !.g.CmdMult = IF W3.g.CmdMultDigit = 0
                                                  THEN IF W3.g.CmdMultNeg # 0 THEN 1 ELSE 4
                                                  ELSE @],
                   Ret |-> -1],
             LAMBDA P :
        IF P.Ret # -1 THEN [W |-> P.W, Ret |-> P.Ret, FuncP |-> ""]
        ELSE IF P.W.g.CmdMultIn # 0
        THEN [W |-> [P.W EXCEPT !.g.CmdMultLen = Len(P.W.g.CmdStr)], Ret |-> 0, FuncP |-> ""]
        ELSE
        \* F: what ED_FRegFindBinding gave.
        Then(ED_FRegFindBinding(P.W.g.CmdBindP,
                                SubSeq(P.W.g.CmdStr, P.W.g.CmdMultLen + 1, Len(P.W.g.CmdStr))),
             LAMBDA F :
        IF F.Res = 1
        THEN [W |-> [P.W EXCEPT !.g.CmdBindP = F.BindP], Ret |-> 0, FuncP |-> ""]
        ELSE IF F.Res < 0
        THEN [W |-> [P.W EXCEPT !.g.CmdBindP = F.BindP,
                                !.g.Echo = "ED_STR_EchoCmdMatchFail",
                                !.g.CmdStr = <<>>],
              Ret |-> 0, FuncP |-> ""]
        ELSE [W |-> [P.W EXCEPT !.g.CmdBindP = F.BindP,
                                !.g.CmdStr = <<>>,
                                !.g.CmdShift = 0,
                                !.g.CmdThisId = Bindings[F.BindP].FuncP],
              Ret |-> -1, FuncP |-> Bindings[F.BindP].FuncP]))))

\* ED_FrameQRAbortOut leaving the query mode on.
ED_FrameQRAbortOut_KeepsQuery(W, Msg) == ED_FrameSetEchoS(W, Msg)

\* ED_FrameQRAbortOut
ED_FrameQRAbortOut(W, Msg) == ED_FrameSetEchoS([W EXCEPT !.g.QRPaneP = NULL], Msg)

\* ED_FrameHandleKey for the keys of KeyBytes.  In the query mode C-g goes to
\* ED_FrameQRHandleChars, which calls ED_FrameQRAbortOut; the other keys edit
\* the response and are not typed there.  The only function these keys reach
\* through a binding is ED_CmdQuitAction.
ED_FrameHandleKey(W, Key) ==
    IF W.g.QRPaneP # NULL THEN ED_FrameQRAbortOut(W, "ED_STR_EchoQuit")
    ELSE IF W.g.QREPPaneP # NULL THEN ED_QREPHandleChars(W, Key)
    ELSE
    \* R: what the search did with the key, when one is on.
    Then(IF W.g.ISPaneP # NULL
         THEN ED_ISHandleChars(W, Key, IF Len(KeyBytes(Key)) = 1 THEN KeyBytes(Key) ELSE <<>>)
         ELSE [W |-> W, Ret |-> 0],
         LAMBDA R :
    IF R.Ret = 1 THEN R.W
    ELSE IF Len(KeyBytes(Key)) = 1 /\ R.W.g.CmdStr = <<>>
    THEN ED_PaneInsertChars(R.W, R.W.g.CurPaneP, KeyBytes(Key), TRUE)
    ELSE
    \* From the test of the range of SymChar on.
    Then(ED_FrameCommandMatchKey(R.W, Key), LAMBDA M :
    IF M.Ret = 1
    THEN ED_PaneInsertChars(M.W, M.W.g.CurPaneP, KeyBytes(Key), TRUE)
    ELSE IF M.Ret = 0 THEN M.W
    ELSE CommandReturn(ED_CmdQuitAction(M.W, M.W.g.CurPaneP))))

(***************************************************************************)
(* Buffers and the state after start-up.                                   *)
(***************************************************************************)
\* ED_BufferNew
ED_BufferNew(W, BufP, InitSize, InfoOnly) ==
    LET Size == IF InitSize = 0 THEN ED_BUFINITLEN ELSE InitSize
        B == [Mem |-> Malloc(Size), BufEndP |-> Size, GapStartP |-> 0, GapEndP |-> Size,
              LastPos |-> 0, PaneRefCount |-> 0, CursorPos |-> 0, PanePos |-> 0,
              Flags |-> IF InfoOnly THEN {"CLEANUNDO", "NOFILE", "INFOONLY", "READONLY"}
                        ELSE {"CLEANUNDO"},
              MarkRingIndex |-> 0,
              MarkRingArr |-> [I \in 0 .. ED_MARKRINGCOUNT - 1 |-> 0],
              USlabs |-> <<>>, USCount |-> 0, USTotalSize |-> 0]
        W1 == [W EXCEPT !.bufs = [b \in DOMAIN W.bufs \cup {BufP} |->
                                     IF b = BufP THEN B ELSE W.bufs[b]]]
    IN  IF InfoOnly THEN W1 ELSE ED_BufferInitUndo(W1, BufP)

\* ED_BufferReadFile for a file holding the bytes Data.
ED_BufferReadFile(W, BufP, Data) ==
    LET W1 == ED_BufferNew(W, BufP, Len(Data) + ED_GAPEXTRAEXPAND, FALSE)
    IN  [W1 EXCEPT !.bufs[BufP].Mem = MemWrite(@, W1.bufs[BufP].GapStartP, Data),
                   !.bufs[BufP].GapStartP = @ + Len(Data),
                   !.bufs[BufP].LastPos = Len(Data)]

\* ED_BufferInsertLine
ED_BufferInsertLine(B, Pos, Str) ==
    LET B1 == ED_BufferPlaceGap(B, Pos, Len(Str) + 1)
    IN  [B1 EXCEPT !.Mem = MemWrite(B1.Mem, B1.GapStartP, Str \o <<10>>),
                   !.GapStartP = @ + Len(Str) + 1,
                   !.LastPos = @ + Len(Str) + 1]

\* ED_BufferKill: the buffer goes only when no pane shows it.  The list of
\* buffers (ED_FirstBufP and the links) is the sequence g.BufList.
ED_BufferKill(W, BufP) ==
    IF W.bufs[BufP].PaneRefCount # 0 THEN W
    ELSE LET W1 == ED_XSelReleasePrimary(W)
         IN  [W1 EXCEPT !.bufs = [b \in DOMAIN W1.bufs \ {BufP} |-> W1.bufs[b]],
                        !.g.BufList = SelectSeq(@, LAMBDA b : b # BufP)]

\* ED_PaneGetNewBuf.  A pane that is new to the model is the pane of the
\* start-up, which has no buffer yet and starts at position 0.
ED_PaneGetNewBuf(W, PaneP, NewBufP) ==
    LET Known == PaneP \in DOMAIN W.panes
        OldBufP == IF Known THEN W.panes[PaneP].BufP ELSE NULL
        W1 == IF OldBufP = NULL THEN W
              ELSE LET W0 == [W EXCEPT !.bufs[OldBufP].PaneRefCount = @ - 1,
                                       !.bufs[OldBufP].CursorPos = W.panes[PaneP].CursorPos,
                                       !.bufs[OldBufP].PanePos = W.panes[PaneP].PanePos]
                   IN  IF "INFOONLY" \in W0.bufs[OldBufP].Flags
                       THEN ED_BufferKill(W0, OldBufP) ELSE W0
        New == IF Known
               THEN [W.panes[PaneP] EXCEPT !.BufP = NewBufP,
                                           !.PanePos = W1.bufs[NewBufP].PanePos,
                                           !.CursorPos = W1.bufs[NewBufP].CursorPos]
               ELSE [BufP |-> NewBufP, CursorPos |-> W1.bufs[NewBufP].CursorPos]
    IN  [W1 EXCEPT !.panes = [p \in DOMAIN W.panes \cup {PaneP} |->
                                 IF p = PaneP THEN New ELSE W.panes[p]],
                   !.bufs[NewBufP].PaneRefCount = @ + 1]

\* The globals as the program starts with them.
InitGlobals ==
    [CurPaneP |-> 1, Echo |-> "",
     CmdMult |-> 1, CmdMultNeg |-> 0, CmdMultCmd |-> 0, CmdShift |-> 0,
     CmdThisId |-> "ED_StartId", CmdLastId |-> "ED_StartId",
     SelPaneP |-> NULL, SelMarkPos |-> 0,
     PrimaryOwn |-> 0, PrimaryBufP |-> NULL, PrimaryPos |-> 0, PrimaryLen |-> 0,
     ClipOwn |-> 0, YankIsExternal |-> 0,
     SlabSeq |-> 0, UndoSlabP |-> NULL, UndoBlock |-> 0, UndoSeenSave |-> 0,
     QRPaneP |-> NULL, QRRespFP |-> "NULL", QRLastCmd |-> "ED_QRSomeCmd",
     QREPPaneP |-> NULL, QREPFromStr |-> <<>>, QREPToStr |-> <<>>,
     QREPPrevFromStr |-> <<>>, QREPPrevToStr |-> <<>>, QREPCount |-> 0, QREPDoAll |-> 0,
     ISPaneP |-> NULL, ISDir |-> 1, ISStr |-> <<>>, ISCaseSen |-> 0, ISDoWrap |-> 0,
     ISMatchPos |-> -1, ISSearchPos |-> 0, ISOriginPos |-> 0, ISPrevStr |-> <<>>,
     CmdStr |-> <<>>, CmdBindP |-> ED_FirstBindP, CmdMultIn |-> 0, CmdMultLen |-> 0,
     CmdMultDigit |-> 0,
     LastSelPaneP |-> NULL, CurFrameP |-> NULL, FrameN |-> 0, PaneN |-> 0,
     Frames |-> <<>>, FrameList |-> <<>>, BufList |-> <<>>,
     BufN |-> 1, QRTempBufP |-> NULL, XOut |-> <<>>]

NoState == [bufs |-> <<>>, panes |-> <<>>, kr |-> ED_KillRingInit, g |-> InitGlobals]

\* The editor started on a file holding Data: one frame, one pane, one buffer.
StartOnFile(Data) == ED_PaneGetNewBuf(ED_BufferReadFile(NoState, 1, Data), 1, 1)

\* The editor with the current pane showing an information buffer (the help
\* buffer of ED_CmdHelp) that holds the line Str.
StartOnInfo(Str) ==
    LET W1 == ED_BufferNew(NoState, 1, 0, TRUE)
    IN  ED_PaneGetNewBuf([W1 EXCEPT !.bufs[1] = ED_BufferInsertLine(@, 0, Str)], 1, 1)

(***************************************************************************)
(* The state machine.  h is a history variable: the number of key          *)
(* sequences handled and their names in order, the names of the last       *)
(* three, what came with the last (its prefix argument, or the key or the  *)
(* answer itself), and the state before the last and before the one        *)
(* before.                                                                 *)
(***************************************************************************)
Cur == [bufs |-> bufs, panes |-> panes, kr |-> kr, g |-> g]

InitHistory == [Ops |-> 0, Names |-> <<>>, Cmd |-> "", PCmd |-> "", PPCmd |-> "",
                Arg |-> <<>>, Pre |-> <<>>, PPre |-> <<>>]

\* The step to state W2 made by the key sequence named Name that came with Arg.
Do(Name, Arg, W2, Bound) ==
    /\ h.Ops < Bound
    /\ bufs' = W2.bufs
    /\ panes' = W2.panes
    /\ kr' = W2.kr
    /\ g' = W2.g
    /\ h' = [Ops |-> h.Ops + 1, Names |-> Append(h.Names, Name),
             Cmd |-> Name, PCmd |-> h.Cmd, PPCmd |-> h.PCmd,
             Arg |-> Arg, Pre |-> Cur, PPre |-> h.Pre]

\* A key sequence begins and reaches its command only outside the query mode,
\* a query-replace session and an incremental search (ED_FrameHandleKey).
NormalMode ==
    /\ g.QRPaneP = NULL
    /\ g.QREPPaneP = NULL
    /\ g.ISPaneP = NULL
    /\ g.CmdStr = <<>>

NoArg == [Mult |-> 1, Neg |-> 0, Cmd |-> 0]
CtrlU == [Mult |-> 4, Neg |-> 0, Cmd |-> 1]
CtrlUNumber(n) == [Mult |-> n, Neg |-> 0, Cmd |-> 1]
MetaMinus == [Mult |-> 1, Neg |-> 1, Cmd |-> 1]

\* The step of a self-inserting key, typed after a prefix argument or alone.
InsertKey(Prefix, Str, Bound) ==
    Do("ED_PaneInsertChars", IF Prefix = <<>> THEN NoArg ELSE Prefix[1],
       HandleInsertKey(Cur, Prefix # <<>>, IF Prefix = <<>> THEN NoArg ELSE Prefix[1], Str),
       Bound)

(***************************************************************************)
(* Spec: the editing commands on one buffer in one pane.                   *)
(***************************************************************************)
\* The files the editor is started on: an empty one, and "a", newline,
\* e-acute (two lines, two words, one two-byte character).
Files == {<<>>, <<97, 10, 195, 169>>}

\* What the key x sends.
TypedKey == <<120>>

\* What the owner of the CLIPBOARD selection sends: nothing, or "y".
XSelData == {<<>>, <<121>>}

Init ==
    /\ \E Data \in Files :
          /\ bufs = StartOnFile(Data).bufs
          /\ panes = StartOnFile(Data).panes
    /\ kr = ED_KillRingInit
    /\ g = InitGlobals
    /\ h = InitHistory

\* The key x, alone or after C-u 0 or C-u 2.
TypeChar ==
    \E Prefix \in {<<>>, <<CtrlUNumber(0)>>, <<CtrlUNumber(2)>>} :
        /\ NormalMode
        /\ InsertKey(Prefix, TypedKey, MaxOps)

\* C-f and S-right
GoNextChar ==
    \E Shift \in {0, 1} :
        /\ NormalMode
        /\ Do("ED_CmdGoNextChar", NoArg,
              CommandReturn(ED_CmdGoNextChar(
                  ED_FrameCommandMatch(Cur, NoArg, Shift, "ED_CmdGoNextChar"), g.CurPaneP)),
              MaxOps)

\* M->
GoBufEnd ==
    /\ NormalMode
    /\ Do("ED_CmdGoBufEnd", NoArg,
          CommandReturn(ED_CmdGoBufEnd(
              ED_FrameCommandMatch(Cur, NoArg, 0, "ED_CmdGoBufEnd"), g.CurPaneP)),
          MaxOps)

\* C-d, alone or after C-u 0, C-u or M--
DelNextChar ==
    \E Arg \in {NoArg, CtrlUNumber(0), CtrlU, MetaMinus} :
        /\ NormalMode
        /\ Do("ED_CmdDelNextChar", Arg,
              CommandReturn(ED_CmdDelNextChar(
                  ED_FrameCommandMatch(Cur, Arg, 0, "ED_CmdDelNextChar"), g.CurPaneP)),
              MaxOps)

\* Backspace, alone or after C-u
DelPrevChar ==
    \E Arg \in {NoArg, CtrlU} :
        /\ NormalMode
        /\ Do("ED_CmdDelPrevChar", Arg,
              CommandReturn(ED_CmdDelPrevChar(
                  ED_FrameCommandMatch(Cur, Arg, 0, "ED_CmdDelPrevChar"), g.CurPaneP)),
              MaxOps)

\* C-k, alone or after C-u 0, C-u 2 or M--
KillLine ==
    \E Arg \in {NoArg, CtrlUNumber(0), CtrlUNumber(2), MetaMinus} :
        /\ NormalMode
        /\ Do("ED_CmdKillLine", Arg,
              CommandReturn(ED_CmdKillLine(
                  ED_FrameCommandMatch(Cur, Arg, 0, "ED_CmdKillLine"), g.CurPaneP)),
              MaxOps)

\* C-w
KillRegion ==
    /\ NormalMode
    /\ Do("ED_CmdKillRegion", NoArg,
          CommandReturn(ED_CmdKillRegion(
              ED_FrameCommandMatch(Cur, NoArg, 0, "ED_CmdKillRegion"), g.CurPaneP)),
          MaxOps)

\* C-y; the CLIPBOARD owner, when it is another client, sends XData.
Yank ==
    \E XData \in XSelData :
        /\ NormalMode
        /\ g.ClipOwn = 0 \/ XData = <<>>
        /\ Do("ED_CmdYank", NoArg,
              CommandReturn(ED_CmdYank(
                  ED_FrameCommandMatch(Cur, NoArg, 0, "ED_CmdYank"), g.CurPaneP, XData)),
              MaxOps)

\* M-~ , alone or after C-u
ModBuffer ==
    \E Arg \in {NoArg, CtrlU} :
        /\ NormalMode
        /\ Do("ED_CmdModBuffer", Arg,
              CommandReturn(ED_CmdModBuffer(
                  ED_FrameCommandMatch(Cur, Arg, 0, "ED_CmdModBuffer"), g.CurPaneP)),
              MaxOps)

\* C-/
Undo ==
    /\ NormalMode
    /\ Do("ED_CmdUndo", NoArg,
          CommandReturn(ED_CmdUndo(
              ED_FrameCommandMatch(Cur, NoArg, 0, "ED_CmdUndo"), g.CurPaneP)),
          MaxOps)

Next ==
    \/ TypeChar
    \/ GoNextChar
    \/ GoBufEnd
    \/ DelNextChar
    \/ DelPrevChar
    \/ KillLine
    \/ KillRegion
    \/ Yank
    \/ ModBuffer
    \/ Undo

Spec == Init /\ [][Next]_vars

(***************************************************************************)
(* SpecUndo: typing, deleting, killing the region, unmodify and undo, on   *)
(* the same files, more keys deep.                                         *)
(***************************************************************************)
\* The key x
UTypeChar ==
    /\ NormalMode
    /\ InsertKey(<<>>, TypedKey, MaxUndoOps)

\* C-d, alone or after M--
UDelNextChar ==
    \E Arg \in {NoArg, MetaMinus} :
        /\ NormalMode
        /\ Do("ED_CmdDelNextChar", Arg,
              CommandReturn(ED_CmdDelNextChar(
                  ED_FrameCommandMatch(Cur, Arg, 0, "ED_CmdDelNextChar"), g.CurPaneP)),
              MaxUndoOps)

\* C-w
UKillRegion ==
    /\ NormalMode
    /\ Do("ED_CmdKillRegion", NoArg,
          CommandReturn(ED_CmdKillRegion(
              ED_FrameCommandMatch(Cur, NoArg, 0, "ED_CmdKillRegion"), g.CurPaneP)),
          MaxUndoOps)

\* M-~
UModBuffer ==
    /\ NormalMode
    /\ Do("ED_CmdModBuffer", NoArg,
          CommandReturn(ED_CmdModBuffer(
              ED_FrameCommandMatch(Cur, NoArg, 0, "ED_CmdModBuffer"), g.CurPaneP)),
          MaxUndoOps)

\* C-/
UUndo ==
    /\ NormalMode
    /\ Do("ED_CmdUndo", NoArg,
          CommandReturn(ED_CmdUndo(
              ED_FrameCommandMatch(Cur, NoArg, 0, "ED_CmdUndo"), g.CurPaneP)),
          MaxUndoOps)

NextUndo == UTypeChar \/ UDelNextChar \/ UKillRegion \/ UModBuffer \/ UUndo

SpecUndo == Init /\ [][NextUndo]_vars

(***************************************************************************)
(* SpecQREP: query-replace on the file "aaa", with M-< and M-> before it   *)
(* and undo after it.                                                      *)
(***************************************************************************)
InitQREP ==
    /\ bufs = StartOnFile(<<97, 97, 97>>).bufs
    /\ panes = StartOnFile(<<97, 97, 97>>).panes
    /\ kr = ED_KillRingInit
    /\ g = InitGlobals
    /\ h = InitHistory

\* What is typed in answer to the two questions of query-replace: "a", "bb",
\* or nothing.
QRAnswers == {<<97>>, <<98, 98>>, <<>>}

\* The keys a query-replace session handles.
QREPKeys == {"y", "n", "!", ".", "Enter"}

\* M->
QGoBufEnd ==
    /\ NormalMode
    /\ Do("ED_CmdGoBufEnd", NoArg,
          CommandReturn(ED_CmdGoBufEnd(
              ED_FrameCommandMatch(Cur, NoArg, 0, "ED_CmdGoBufEnd"), g.CurPaneP)),
          MaxQREPOps)

\* M-<
QGoBufStart ==
    /\ NormalMode
    /\ Do("ED_CmdGoBufStart", NoArg,
          CommandReturn(ED_CmdGoBufStart(
              ED_FrameCommandMatch(Cur, NoArg, 0, "ED_CmdGoBufStart"), g.CurPaneP)),
          MaxQREPOps)

\* M-%
QueryReplace ==
    /\ NormalMode
    /\ Do("ED_CmdQueryReplace", NoArg,
          CommandReturn(ED_CmdQueryReplace(
              ED_FrameCommandMatch(Cur, NoArg, 0, "ED_CmdQueryReplace"), g.CurPaneP)),
          MaxQREPOps)

\* An answer and Enter, in the query mode (ED_FrameHandleKey sends every key
\* to ED_FrameQRHandleChars while ED_QRPaneP is set).
QRAnswer ==
    \E Resp \in QRAnswers :
        /\ g.QRPaneP # NULL
        /\ Do("ED_FrameQRHandleChars", Resp, ED_FrameQRHandleChars(Cur, Resp), MaxQREPOps)

\* A key of the session, while ED_QREPPaneP is set.
QREPKey ==
    \E SymChar \in QREPKeys :
        /\ g.QRPaneP = NULL
        /\ g.QREPPaneP # NULL
        /\ Do("ED_QREPHandleChars", SymChar, ED_QREPHandleChars(Cur, SymChar), MaxQREPOps)

\* C-/
QUndo ==
    /\ NormalMode
    /\ Do("ED_CmdUndo", NoArg,
          CommandReturn(ED_CmdUndo(
              ED_FrameCommandMatch(Cur, NoArg, 0, "ED_CmdUndo"), g.CurPaneP)),
          MaxQREPOps)

NextQREP == QGoBufEnd \/ QGoBufStart \/ QueryReplace \/ QRAnswer \/ QREPKey \/ QUndo

SpecQREP == InitQREP /\ [][NextQREP]_vars

(***************************************************************************)
(* SpecTyping: the keys a, b, c, d typed in this order into an empty       *)
(* buffer, with C-b, C-f and undo between them.                            *)
(***************************************************************************)
InitTyping ==
    /\ bufs = StartOnFile(<<>>).bufs
    /\ panes = StartOnFile(<<>>).panes
    /\ kr = ED_KillRingInit
    /\ g = InitGlobals
    /\ h = InitHistory

\* "abcd"
Script == <<97, 98, 99, 100>>

\* The next key of Script: the one after as many letters as the buffer holds.
TTypeNext ==
    /\ NormalMode
    /\ bufs[panes[g.CurPaneP].BufP].LastPos \in 0 .. Len(Script) - 1
    /\ InsertKey(<<>>, <<Script[bufs[panes[g.CurPaneP].BufP].LastPos + 1]>>, MaxTypingOps)

\* C-b
TGoPrevChar ==
    /\ NormalMode
    /\ Do("ED_CmdGoPrevChar", NoArg,
          CommandReturn(ED_CmdGoPrevChar(
              ED_FrameCommandMatch(Cur, NoArg, 0, "ED_CmdGoPrevChar"), g.CurPaneP)),
          MaxTypingOps)

\* C-/
TUndo ==
    /\ NormalMode
    /\ Do("ED_CmdUndo", NoArg,
          CommandReturn(ED_CmdUndo(
              ED_FrameCommandMatch(Cur, NoArg, 0, "ED_CmdUndo"), g.CurPaneP)),
          MaxTypingOps)

NextTyping == TTypeNext \/ TGoPrevChar \/ TUndo

SpecTyping == InitTyping /\ [][NextTyping]_vars

(***************************************************************************)
(* SpecKill: the kill commands M-d, M-DEL and C-k, with C-f and M-> between *)
(* them, on the file "one two three".                                      *)
(***************************************************************************)
\* "one two three"
OneTwoThree == <<111, 110, 101, 32, 116, 119, 111, 32, 116, 104, 114, 101, 101>>

InitKill ==
    /\ bufs = StartOnFile(OneTwoThree).bufs
    /\ panes = StartOnFile(OneTwoThree).panes
    /\ kr = ED_KillRingInit
    /\ g = InitGlobals
    /\ h = InitHistory

\* M-d
KDelNextWord ==
    /\ NormalMode
    /\ Do("ED_CmdDelNextWord", NoArg,
          CommandReturn(ED_CmdDelNextWord(
              ED_FrameCommandMatch(Cur, NoArg, 0, "ED_CmdDelNextWord"), g.CurPaneP)),
          MaxKillOps)

\* M-DEL
KDelPrevWord ==
    /\ NormalMode
    /\ Do("ED_CmdDelPrevWord", NoArg,
          CommandReturn(ED_CmdDelPrevWord(
              ED_FrameCommandMatch(Cur, NoArg, 0, "ED_CmdDelPrevWord"), g.CurPaneP)),
          MaxKillOps)

\* C-k
KKillLine ==
    /\ NormalMode
    /\ Do("ED_CmdKillLine", NoArg,
          CommandReturn(ED_CmdKillLine(
              ED_FrameCommandMatch(Cur, NoArg, 0, "ED_CmdKillLine"), g.CurPaneP)),
          MaxKillOps)

\* C-f
KGoNextChar ==
    /\ NormalMode
    /\ Do("ED_CmdGoNextChar", NoArg,
          CommandReturn(ED_CmdGoNextChar(
              ED_FrameCommandMatch(Cur, NoArg, 0, "ED_CmdGoNextChar"), g.CurPaneP)),
          MaxKillOps)

\* M->
KGoBufEnd ==
    /\ NormalMode
    /\ Do("ED_CmdGoBufEnd", NoArg,
          CommandReturn(ED_CmdGoBufEnd(
              ED_FrameCommandMatch(Cur, NoArg, 0, "ED_CmdGoBufEnd"), g.CurPaneP)),
          MaxKillOps)

NextKill == KDelNextWord \/ KDelPrevWord \/ KKillLine \/ KGoNextChar \/ KGoBufEnd

SpecKill == InitKill /\ [][NextKill]_vars

(***************************************************************************)
(* SpecReadOnly: the mutating commands, with C-f, S-right and C-SPC        *)
(* between them, in a pane that shows a read-only information buffer.      *)
(***************************************************************************)
\* The line of the information buffer: "ab c"
InfoLine == <<97, 98, 32, 99>>

\* The kill ring is empty, or holds "y" from a kill made in another buffer
\* before the information buffer was shown.
InitReadOnly ==
    /\ bufs = StartOnInfo(InfoLine).bufs
    /\ panes = StartOnInfo(InfoLine).panes
    /\ \E Killed \in {<<>>, <<121>>} :
          /\ kr = IF Killed = <<>> THEN ED_KillRingInit
                  ELSE ED_KillRingAdd(StartOnInfo(InfoLine), Killed, TRUE).kr
          /\ g = IF Killed = <<>> THEN InitGlobals
                 ELSE ED_KillRingAdd(StartOnInfo(InfoLine), Killed, TRUE).g
    /\ h = InitHistory

\* The key x, alone or after C-u 2
RTypeChar ==
    \E Prefix \in {<<>>, <<CtrlUNumber(2)>>} :
        /\ NormalMode
        /\ InsertKey(Prefix, TypedKey, MaxReadOnlyOps)

\* C-d, alone or after M--
RDelNextChar ==
    \E Arg \in {NoArg, MetaMinus} :
        /\ NormalMode
        /\ Do("ED_CmdDelNextChar", Arg,
              CommandReturn(ED_CmdDelNextChar(
                  ED_FrameCommandMatch(Cur, Arg, 0, "ED_CmdDelNextChar"), g.CurPaneP)),
              MaxReadOnlyOps)

\* DEL
RDelPrevChar ==
    /\ NormalMode
    /\ Do("ED_CmdDelPrevChar", NoArg,
          CommandReturn(ED_CmdDelPrevChar(
              ED_FrameCommandMatch(Cur, NoArg, 0, "ED_CmdDelPrevChar"), g.CurPaneP)),
          MaxReadOnlyOps)

\* M-d
RDelNextWord ==
    /\ NormalMode
    /\ Do("ED_CmdDelNextWord", NoArg,
          CommandReturn(ED_CmdDelNextWord(
              ED_FrameCommandMatch(Cur, NoArg, 0, "ED_CmdDelNextWord"), g.CurPaneP)),
          MaxReadOnlyOps)

\* M-DEL
RDelPrevWord ==
    /\ NormalMode
    /\ Do("ED_CmdDelPrevWord", NoArg,
          CommandReturn(ED_CmdDelPrevWord(
              ED_FrameCommandMatch(Cur, NoArg, 0, "ED_CmdDelPrevWord"), g.CurPaneP)),
          MaxReadOnlyOps)

\* C-k
RKillLine ==
    /\ NormalMode
    /\ Do("ED_CmdKillLine", NoArg,
          CommandReturn(ED_CmdKillLine(
              ED_FrameCommandMatch(Cur, NoArg, 0, "ED_CmdKillLine"), g.CurPaneP)),
          MaxReadOnlyOps)

\* C-w
RKillRegion ==
    /\ NormalMode
    /\ Do("ED_CmdKillRegion", NoArg,
          CommandReturn(ED_CmdKillRegion(
              ED_FrameCommandMatch(Cur, NoArg, 0, "ED_CmdKillRegion"), g.CurPaneP)),
          MaxReadOnlyOps)

\* C-y, alone or after C-u
RYank ==
    \E Arg \in {NoArg, CtrlU}, XData \in XSelData :
        /\ NormalMode
        /\ g.ClipOwn = 0 \/ XData = <<>>
        /\ Do("ED_CmdYank", Arg,
              CommandReturn(ED_CmdYank(
                  ED_FrameCommandMatch(Cur, Arg, 0, "ED_CmdYank"), g.CurPaneP, XData)),
              MaxReadOnlyOps)

\* M-y
RYankPop ==
    /\ NormalMode
    /\ Do("ED_CmdYankPop", NoArg,
          CommandReturn(ED_CmdYankPop(
              ED_FrameCommandMatch(Cur, NoArg, 0, "ED_CmdYankPop"), g.CurPaneP)),
          MaxReadOnlyOps)

\* M-%
RQueryReplace ==
    /\ NormalMode
    /\ Do("ED_CmdQueryReplace", NoArg,
          CommandReturn(ED_CmdQueryReplace(
              ED_FrameCommandMatch(Cur, NoArg, 0, "ED_CmdQueryReplace"), g.CurPaneP)),
          MaxReadOnlyOps)

\* C-/
RUndo ==
    /\ NormalMode
    /\ Do("ED_CmdUndo", NoArg,
          CommandReturn(ED_CmdUndo(
              ED_FrameCommandMatch(Cur, NoArg, 0, "ED_CmdUndo"), g.CurPaneP)),
          MaxReadOnlyOps)

\* C-f and S-right
RGoNextChar ==
    \E Shift \in {0, 1} :
        /\ NormalMode
        /\ Do("ED_CmdGoNextChar", NoArg,
              CommandReturn(ED_CmdGoNextChar(
                  ED_FrameCommandMatch(Cur, NoArg, Shift, "ED_CmdGoNextChar"), g.CurPaneP)),
              MaxReadOnlyOps)

\* C-SPC
RSetMark ==
    /\ NormalMode
    /\ Do("ED_CmdSetMark", NoArg,
          CommandReturn(ED_CmdSetMark(
              ED_FrameCommandMatch(Cur, NoArg, 0, "ED_CmdSetMark"), g.CurPaneP)),
          MaxReadOnlyOps)

NextReadOnly ==
    \/ RTypeChar
    \/ RDelNextChar
    \/ RDelPrevChar
    \/ RDelNextWord
    \/ RDelPrevWord
    \/ RKillLine
    \/ RKillRegion
    \/ RYank
    \/ RYankPop
    \/ RQueryReplace
    \/ RUndo
    \/ RGoNextChar
    \/ RSetMark

SpecReadOnly == InitReadOnly /\ [][NextReadOnly]_vars

\* The buffer of the current pane, its text, and its undo blocks in order.
CurBuf == bufs[panes[g.CurPaneP].BufP]

RECURSIVE SlabBlocks(_, _)
SlabBlocks(USP, Off) ==
    IF Off = 0 \/ Off \notin DOMAIN USP.Blocks THEN <<>>
    ELSE IF USP.Blocks[Off].PrevUBlock <= 0 \/ Off = SizeofUSlabRecord
    THEN <<USP.Blocks[Off]>>
    ELSE Append(SlabBlocks(USP, USP.Blocks[Off].PrevUBlock), USP.Blocks[Off])

RECURSIVE UndoLog(_)
UndoLog(Slabs) ==
    IF Slabs = <<>> THEN <<>>
    ELSE UndoLog(SubSeq(Slabs, 1, Len(Slabs) - 1))
         \o SlabBlocks(Slabs[Len(Slabs)], Slabs[Len(Slabs)].LastUBlock)

\* The buffer shown in the current pane of state W, its undo blocks in order,
\* and the last of them.
PaneBuf(W) == W.bufs[W.panes[W.g.CurPaneP].BufP]
Blocks(W) == UndoLog(PaneBuf(W).USlabs)
LastBlock(W) == Blocks(W)[Len(Blocks(W))]

\* The cursor of the current pane of state W.
Cursor(W) == W.panes[W.g.CurPaneP].CursorPos

\* The test of ED_PaneDelSelRange: the current pane has a selection range.
HasSel(W) == W.g.SelPaneP = W.g.CurPaneP /\ W.g.SelMarkPos # Cursor(W)
SelStart(W) == Min(W.g.SelMarkPos, Cursor(W))
SelEnd(W) == Max(W.g.SelMarkPos, Cursor(W))

\* The command that led from Before to After appended exactly one block to
\* the undo log, and that block is not chained.
RecordedOneBlock(Before, After) ==
    /\ Len(Blocks(After)) = Len(Blocks(Before)) + 1
    /\ SubSeq(Blocks(After), 1, Len(Blocks(Before))) = Blocks(Before)
    /\ "CHAIN" \notin LastBlock(After).Flags

\* The command that led from Before to After appended one undo unit to the
\* log: one block, or one block and blocks chained to it.
RecordedOneUnit(Before, After) ==
    /\ Len(Blocks(After)) > Len(Blocks(Before))
    /\ SubSeq(Blocks(After), 1, Len(Blocks(Before))) = Blocks(Before)
    /\ "CHAIN" \notin Blocks(After)[Len(Blocks(Before)) + 1].Flags
    /\ \A I \in Len(Blocks(Before)) + 2 .. Len(Blocks(After)) :
           "CHAIN" \in Blocks(After)[I].Flags

(***************************************************************************)
(* C1.  A command that records one block, then undo.                       *)
(***************************************************************************)
\* C1 as stated: after a command that recorded exactly one non-chained undo
\* block and an undo, the text is the text before the command.
C1_Original ==
    (/\ h.Ops >= 2
     /\ h.Cmd = "ED_CmdUndo"
     /\ RecordedOneBlock(h.PPre, h.Pre))
    => Text(CurBuf) = Text(PaneBuf(h.PPre))

\* C1, amended: after a command other than undo that recorded exactly one
\* non-chained Add or Del block (not the Save marker of unmodify) and an undo,
\* the text is byte for byte the text before the command.
C1_SingleBlockUndo ==
    (/\ h.Ops >= 2
     /\ h.Cmd = "ED_CmdUndo"
     /\ h.PCmd # "ED_CmdUndo"
     /\ RecordedOneBlock(h.PPre, h.Pre)
     /\ "SAVE" \notin LastBlock(h.Pre).Flags)
    => Text(CurBuf) = Text(PaneBuf(h.PPre))

\* C-u C-d at the start of the three-character file took all of it away in
\* one Del block, and undo brought it back.
C1_Witness ==
    /\ h.Ops >= 2
    /\ h.Cmd = "ED_CmdUndo"
    /\ h.PCmd = "ED_CmdDelNextChar"
    /\ RecordedOneBlock(h.PPre, h.Pre)
    /\ LastBlock(h.Pre).Flags = {"DEL", "FIRSTMOD"}
    /\ Text(PaneBuf(h.Pre)) = <<>>
    /\ Text(CurBuf) = <<97, 10, 195, 169>>

(***************************************************************************)
(* C2.  Typing over a selection.                                           *)
(***************************************************************************)
\* C2: the key x typed while the pane has a selection range takes the range
\* out and puts x in its place, recording a Del block and an Add block
\* chained to it; one undo after the key gives back the text before the key.
C2_TypeOverSelection ==
    /\ (/\ h.Ops >= 1
        /\ h.Cmd = "ED_PaneInsertChars"
        /\ h.Arg = NoArg
        /\ HasSel(h.Pre))
       => /\ Text(CurBuf) =
                SubSeq(Text(PaneBuf(h.Pre)), 1, SelStart(h.Pre)) \o TypedKey
                \o SubSeq(Text(PaneBuf(h.Pre)), SelEnd(h.Pre) + 1, Len(Text(PaneBuf(h.Pre))))
          /\ Len(Blocks(Cur)) = Len(Blocks(h.Pre)) + 2
          /\ "DEL" \in Blocks(Cur)[Len(Blocks(Cur)) - 1].Flags
          /\ "CHAIN" \notin Blocks(Cur)[Len(Blocks(Cur)) - 1].Flags
          /\ {"ADD", "CHAIN"} \subseteq LastBlock(Cur).Flags
    /\ (/\ h.Ops >= 2
        /\ h.Cmd = "ED_CmdUndo"
        /\ h.PCmd = "ED_PaneInsertChars"
        /\ HasSel(h.PPre))
       => Text(CurBuf) = Text(PaneBuf(h.PPre))

(***************************************************************************)
(* C4.  unmodify, one mutating command, undo.                              *)
(***************************************************************************)
\* The state W is the one unmodify left.
Unmodified(W) == W.g.Echo = "ED_STR_EchoModFlagClear" /\ "MOD" \notin PaneBuf(W).Flags

\* C4 as stated: after unmodify, one command that changed the text, and one
\* undo, the text is the text at unmodify and the buffer is unmodified.
C4_Original ==
    (/\ h.Ops >= 3
     /\ h.Cmd = "ED_CmdUndo"
     /\ h.PPCmd = "ED_CmdModBuffer"
     /\ Unmodified(h.PPre)
     /\ Text(PaneBuf(h.Pre)) # Text(PaneBuf(h.PPre)))
    => /\ Text(CurBuf) = Text(PaneBuf(h.PPre))
       /\ "MOD" \notin CurBuf.Flags

\* C4, amended: the same when the command between unmodify and undo is not
\* itself undo and what it recorded is one undo unit.
C4_UnmodifyMutateUndo ==
    (/\ h.Ops >= 3
     /\ h.Cmd = "ED_CmdUndo"
     /\ h.PCmd # "ED_CmdUndo"
     /\ h.PPCmd = "ED_CmdModBuffer"
     /\ Unmodified(h.PPre)
     /\ RecordedOneUnit(h.PPre, h.Pre)
     /\ Text(PaneBuf(h.Pre)) # Text(PaneBuf(h.PPre)))
    => /\ Text(CurBuf) = Text(PaneBuf(h.PPre))
       /\ "MOD" \notin CurBuf.Flags

\* x, unmodify, x, undo: the text is the one x that unmodify saw, and the
\* buffer is unmodified again.
C4_Witness ==
    /\ h.Ops = 4
    /\ h.Cmd = "ED_CmdUndo"
    /\ h.PCmd = "ED_PaneInsertChars"
    /\ h.PPCmd = "ED_CmdModBuffer"
    /\ Unmodified(h.PPre)
    /\ Text(PaneBuf(h.PPre)) = TypedKey
    /\ Text(PaneBuf(h.Pre)) = TypedKey \o TypedKey
    /\ Text(CurBuf) = TypedKey
    /\ "MOD" \notin CurBuf.Flags

(***************************************************************************)
(* C6.  The gap.                                                           *)
(***************************************************************************)
\* A character of more than one byte has bytes on both sides of the gap: the
\* byte after the gap is a continuation byte.
Straddles(B) ==
    /\ B.GapStartP > 0
    /\ B.GapEndP < B.BufEndP
    /\ ED_BUFFERISMIDUTF8(MemGet(B.Mem, B.GapEndP))

\* C6: in every buffer, after every command, gap_start <= gap_end <= capacity,
\* the length of the text is the capacity less the size of the gap, and no
\* character has bytes on both sides of the gap.
C6_GapInvariant ==
    \A b \in DOMAIN bufs :
        /\ 0 <= bufs[b].GapStartP
        /\ bufs[b].GapStartP <= bufs[b].GapEndP
        /\ bufs[b].GapEndP <= bufs[b].BufEndP
        /\ bufs[b].LastPos = bufs[b].BufEndP - (bufs[b].GapEndP - bufs[b].GapStartP)
        /\ ~Straddles(bufs[b])

(***************************************************************************)
(* C9.  A command that reports an error.                                   *)
(***************************************************************************)
\* The messages that report an error.
ErrorEchoes ==
    {"ED_STR_EchoBegBuf", "ED_STR_EchoEndBuf", "ED_STR_EchoUndoNoMore",
     "ED_STR_EchoBufNoUndo", "ED_STR_EchoReadOnly"}

\* C9: when a command has put an error message in the echo line, the text,
\* the undo log and the kill ring are as they were before the command.
C9_AllOrNothing ==
    (h.Ops >= 1 /\ g.Echo \in ErrorEchoes)
    => /\ Text(CurBuf) = Text(PaneBuf(h.Pre))
       /\ Blocks(Cur) = Blocks(h.Pre)
       /\ kr = h.Pre.kr

(***************************************************************************)
(* C3.  Query-replace of "a" by "bb" on "aaa", answered with !.            *)
(***************************************************************************)
\* The keys of the scenario, from the start: M-%, the two answers, a session
\* key; then undo.
QREPScenario == <<"ED_CmdQueryReplace", "ED_FrameQRHandleChars", "ED_FrameQRHandleChars",
                  "ED_QREPHandleChars">>

\* The session of the scenario has just been answered with !.
ReplacedAll(W, Hist) ==
    /\ Hist.Names = QREPScenario
    /\ Hist.Arg = "!"
    /\ W.g.QREPFromStr = <<97>>
    /\ W.g.QREPToStr = <<98, 98>>

\* C3 as stated: the text is then "bbbbbb", and after one undo it is "aaa".
C3_Original ==
    /\ ReplacedAll(Cur, h) => Text(CurBuf) = <<98, 98, 98, 98, 98, 98>>
    /\ (/\ h.Names = Append(QREPScenario, "ED_CmdUndo")
        /\ Text(PaneBuf(h.Pre)) = <<98, 98, 98, 98, 98, 98>>)
       => Text(CurBuf) = <<97, 97, 97>>

\* C3, amended: the text is then "bbbbbb"; each undo takes back one
\* replacement, so that one undo gives "bbbba", and three give "aaa".
C3_ReplaceAllUndo ==
    /\ ReplacedAll(Cur, h) => Text(CurBuf) = <<98, 98, 98, 98, 98, 98>>
    /\ (/\ h.Names = Append(QREPScenario, "ED_CmdUndo")
        /\ Text(PaneBuf(h.Pre)) = <<98, 98, 98, 98, 98, 98>>)
       => Text(CurBuf) = <<98, 98, 98, 98, 97>>
    /\ (/\ h.Names = QREPScenario \o <<"ED_CmdUndo", "ED_CmdUndo", "ED_CmdUndo">>
        /\ Text(PaneBuf(h.PPre)) = <<98, 98, 98, 98, 97>>)
       => /\ Text(PaneBuf(h.Pre)) = <<98, 98, 97, 97>>
          /\ Text(CurBuf) = <<97, 97, 97>>

\* The third undo after the ! of the scenario has brought "aaa" back.
C3_Witness ==
    /\ h.Names = QREPScenario \o <<"ED_CmdUndo", "ED_CmdUndo", "ED_CmdUndo">>
    /\ Text(PaneBuf(h.PPre)) = <<98, 98, 98, 98, 97>>
    /\ g.QREPFromStr = <<97>>
    /\ g.QREPToStr = <<98, 98>>
    /\ Text(CurBuf) = <<97, 97, 97>>

(***************************************************************************)
(* C7.  The mark ring.                                                     *)
(***************************************************************************)
\* C7: every slot of the mark ring of every buffer holds a position of the
\* buffer, 0 .. length.
C7_MarksInBuffer ==
    \A b \in DOMAIN bufs :
        \A I \in 0 .. ED_MARKRINGCOUNT - 1 :
            bufs[b].MarkRingArr[I] \in 0 .. bufs[b].LastPos

(***************************************************************************)
(* C5.  Undo after undo, and undo after another command.                   *)
(***************************************************************************)
\* The number of blocks of the undo log of the current buffer of W up to and
\* including the one that ED_UndoSlabP and ED_UndoBlock designate; 0 if they
\* designate none.
HeadIndex(W) ==
    IF W.g.UndoSlabP = NULL \/ W.g.UndoBlock = 0 \/ SlabWhere(W, W.g.UndoSlabP) = {} THEN 0
    ELSE LET bi == CHOOSE x \in SlabWhere(W, W.g.UndoSlabP) : TRUE
             Slabs == W.bufs[bi[1]].USlabs
         IN  Len(UndoLog(SubSeq(Slabs, 1, bi[2] - 1)))
             + Len(SlabBlocks(Slabs[bi[2]], W.g.UndoBlock))

\* After is Before with the block UB taken back: what UB added is removed,
\* what it deleted is there again, and the cursor is at the block's position.
Reverted(Before, After, UB) ==
    LET T == Text(PaneBuf(Before))
        P == UB.DataPos
    IN  /\ Cursor(After) = P
        /\ Text(PaneBuf(After)) =
              IF "ADD" \in UB.Flags
              THEN SubSeq(T, 1, P) \o SubSeq(T, P + UB.DataLen + 1, Len(T))
              ELSE SubSeq(T, 1, P) \o UB.Data \o SubSeq(T, P + 1, Len(T))

\* The keys of the scenario: a, b, c, C-b, C-b, d.
TypingScenario == <<"ED_PaneInsertChars", "ED_PaneInsertChars", "ED_PaneInsertChars",
                    "ED_CmdGoPrevChar", "ED_CmdGoPrevChar", "ED_PaneInsertChars">>

\* C5: an undo after a command other than undo takes back the newest block
\* of the log, and an undo after an undo takes back the block before the one
\* the last undo took back; in the scenario the text is "adbc" with cursor 2,
\* after one undo "abc" with cursor 1, after the next undo empty with
\* cursor 0.
C5_UndoOrder ==
    /\ (/\ h.Cmd = "ED_CmdUndo"
        /\ h.PCmd # "ED_CmdUndo"
        /\ Blocks(h.Pre) # <<>>)
       => /\ HeadIndex(Cur) = Len(Blocks(h.Pre))
          /\ Reverted(h.Pre, Cur, LastBlock(h.Pre))
    /\ (/\ h.Cmd = "ED_CmdUndo"
        /\ h.PCmd = "ED_CmdUndo"
        /\ HeadIndex(h.Pre) > 1)
       => /\ HeadIndex(Cur) = HeadIndex(h.Pre) - 1
          /\ Reverted(h.Pre, Cur, Blocks(h.Pre)[HeadIndex(h.Pre) - 1])
    /\ h.Names = TypingScenario
       => Text(CurBuf) = <<97, 100, 98, 99>> /\ Cursor(Cur) = 2
    /\ h.Names = Append(TypingScenario, "ED_CmdUndo")
       => Text(CurBuf) = <<97, 98, 99>> /\ Cursor(Cur) = 1
    /\ h.Names = TypingScenario \o <<"ED_CmdUndo", "ED_CmdUndo">>
       => Text(CurBuf) = <<>> /\ Cursor(Cur) = 0

\* The second undo of the scenario has emptied the buffer again.
C5_Witness ==
    /\ h.Names = TypingScenario \o <<"ED_CmdUndo", "ED_CmdUndo">>
    /\ Text(PaneBuf(h.PPre)) = <<97, 100, 98, 99>>
    /\ Text(PaneBuf(h.Pre)) = <<97, 98, 99>>
    /\ HeadIndex(h.Pre) = 2
    /\ HeadIndex(Cur) = 1
    /\ Text(CurBuf) = <<>>

(***************************************************************************)
(* C8.  Consecutive kills.                                                 *)
(***************************************************************************)
KillCmds == {"ED_CmdDelNextWord", "ED_CmdDelPrevWord", "ED_CmdKillLine"}

\* What the command that led from Before to After took out of the text: it
\* began where the cursor is afterwards.
KilledLen(Before, After) == Len(Text(PaneBuf(Before))) - Len(Text(PaneBuf(After)))
KilledText(Before, After) ==
    SubSeq(Text(PaneBuf(Before)), Cursor(After) + 1, Cursor(After) + KilledLen(Before, After))

\* The entries of the kill ring that hold text, and the top entry.
KillEntries(K) == {I \in 0 .. ED_KILLRINGCOUNT - 1 : K.EltArr[I].Len # 0}
KillTop(K) == KillRingEntry(K, K.TopI)

MutatingCmds == {"ED_PaneInsertChars", "ED_CmdDelNextChar", "ED_CmdDelPrevChar",
                 "ED_CmdDelNextWord", "ED_CmdDelPrevWord", "ED_CmdKillLine",
                 "ED_CmdKillRegion", "ED_CmdYank", "ED_CmdYankPop", "ED_CmdQueryReplace",
                 "ED_CmdUndo"}

\* C10: a mutating command given in a pane that shows a read-only buffer
\* leaves that buffer as it was (its bytes and its gap, its flags, its undo
\* log and its mark ring) and leaves the kill ring as it was.
C10_ReadOnlyUnchanged ==
    (/\ h.Cmd \in MutatingCmds
     /\ "READONLY" \in PaneBuf(h.Pre).Flags)
    => /\ bufs = h.Pre.bufs
       /\ kr = h.Pre.kr

\* C-SPC, S-right and then x: the key is typed with a selection and a mark
\* in the read-only buffer, and with "y" in the kill ring.
C10_Witness ==
    /\ h.Names = <<"ED_CmdSetMark", "ED_CmdGoNextChar", "ED_PaneInsertChars">>
    /\ "READONLY" \in PaneBuf(h.Pre).Flags
    /\ HasSel(h.Pre)
    /\ KillTop(h.Pre.kr) = <<121>>
    /\ Text(CurBuf) = InfoLine \o <<10>>
    /\ kr = h.Pre.kr

(***************************************************************************)
(* C11.  Query-replace answered with !.                                    *)
(***************************************************************************)
\* T with every occurrence of From replaced by To, in one scan from left to
\* right that goes on after each occurrence it replaced.
RECURSIVE ReplaceAllIn(_, _, _)
ReplaceAllIn(T, From, To) ==
    IF Len(T) < Len(From) \/ From = <<>> THEN T
    ELSE IF SubSeq(T, 1, Len(From)) = From
    THEN To \o ReplaceAllIn(SubSeq(T, Len(From) + 1, Len(T)), From, To)
    ELSE <<T[1]>> \o ReplaceAllIn(SubSeq(T, 2, Len(T)), From, To)

\* C11: after ! in a query-replace session the text before the match is as
\* it was, every occurrence of the from-string from the match on is replaced
\* by the to-string, and the session is over.
C11_ReplaceAll ==
    (/\ h.Cmd = "ED_QREPHandleChars"
     /\ h.Arg = "!")
    => /\ g.QREPPaneP = NULL
       /\ Text(CurBuf) =
             SubSeq(Text(PaneBuf(h.Pre)), 1, h.Pre.g.ISMatchPos)
             \o ReplaceAllIn(SubSeq(Text(PaneBuf(h.Pre)), h.Pre.g.ISMatchPos + 1,
                                    Len(Text(PaneBuf(h.Pre)))),
                             h.Pre.g.QREPFromStr, h.Pre.g.QREPToStr)

(***************************************************************************)
(* SpecISearch: incremental search on the file "foo bar foo", started from *)
(* the start or the end of the buffer.                                     *)
(***************************************************************************)
FooBarFoo == <<102, 111, 111, 32, 98, 97, 114, 32, 102, 111, 111>>

InitISearch ==
    /\ bufs = StartOnFile(FooBarFoo).bufs
    /\ panes = StartOnFile(FooBarFoo).panes
    /\ kr = ED_KillRingInit
    /\ g = InitGlobals
    /\ h = InitHistory

\* The keys typed during a search.
ISKeys == {"f", "o", "C-s", "C-r", "Return", "Backspace", "C-g"}

\* The bytes a key of ISKeys sends.
ISKeyStr(Key) ==
    CASE Key = "a" -> <<97>>
      [] Key = "f" -> <<102>>
      [] Key = "o" -> <<111>>
      [] OTHER -> <<>>

\* C-s
ISearch ==
    /\ NormalMode
    /\ Do("ED_CmdISearch", NoArg,
          CommandReturn(ED_CmdISearch(
              ED_FrameCommandMatch(Cur, NoArg, 0, "ED_CmdISearch"), g.CurPaneP)),
          MaxISearchOps)

\* C-r
ISearchBack ==
    /\ NormalMode
    /\ Do("ED_CmdISearchBack", NoArg,
          CommandReturn(ED_CmdISearchBack(
              ED_FrameCommandMatch(Cur, NoArg, 0, "ED_CmdISearchBack"), g.CurPaneP)),
          MaxISearchOps)

\* M->
IGoBufEnd ==
    /\ NormalMode
    /\ Do("ED_CmdGoBufEnd", NoArg,
          CommandReturn(ED_CmdGoBufEnd(
              ED_FrameCommandMatch(Cur, NoArg, 0, "ED_CmdGoBufEnd"), g.CurPaneP)),
          MaxISearchOps)

\* A key during the search (ED_FrameHandleKey while ED_ISPaneP is set): the
\* key goes to ED_ISHandleChars, and C-g, which that function does not take,
\* goes on to the dispatcher and runs ED_CmdQuitAction.
ISKey ==
    \E Key \in ISKeys :
        /\ g.QRPaneP = NULL
        /\ g.QREPPaneP = NULL
        /\ g.ISPaneP # NULL
        /\ LET R == ED_ISHandleChars(Cur, Key, ISKeyStr(Key))
           IN  Do("ED_ISHandleChars", Key,
                  IF R.Ret = 1 THEN R.W
                  ELSE CommandReturn(ED_CmdQuitAction(
                           ED_FrameCommandMatch(R.W, NoArg, 0, "ED_CmdQuitAction"),
                           R.W.g.CurPaneP)),
                  MaxISearchOps)

NextISearch == ISearch \/ ISearchBack \/ IGoBufEnd \/ ISKey

SpecISearch == InitISearch /\ [][NextISearch]_vars

(* C12.  Forward incremental search and its wrap. *)
\* Whether the bytes of S stand in T from position Pos on (0-based), a capital
\* letter of T standing for its small letter too.
StandsAt(T, S, Pos) ==
    /\ Pos + Len(S) <= Len(T)
    /\ \A k \in 1 .. Len(S) :
          \/ T[Pos + k] = S[k]
          \/ 65 <= T[Pos + k] /\ T[Pos + k] <= 90 /\ T[Pos + k] + 32 = S[k]

\* The first position from Pos on where S stands in T, or -1.
FirstMatchFrom(T, S, Pos) ==
    LET Hits == {p \in Pos .. Len(T) - 1 : StandsAt(T, S, p)}
    IN  IF Hits = {} \/ S = <<>> THEN -1
        ELSE CHOOSE p \in Hits : \A q \in Hits : p <= q

\* The last step was a key of a forward search that stays forward.
ForwardKey(Key) ==
    /\ h.Cmd = "ED_ISHandleChars"
    /\ h.Arg = Key
    /\ h.Pre.g.ISDir = 1

\* The state is that of a forward search for "foo" begun at position 0 whose
\* last match is at position Pos, with no wrap pending.
FooAt(W, Pos) ==
    /\ W.g.ISPaneP # NULL
    /\ W.g.ISDir = 1
    /\ W.g.ISStr = <<102, 111, 111>>
    /\ W.g.ISOriginPos = 0
    /\ W.g.ISDoWrap = 0
    /\ W.g.ISMatchPos = Pos
    /\ W.g.ISSearchPos = Pos
    /\ W.panes[W.g.ISPaneP].CursorPos = Pos + 3

\* The same search after the scan from position 8 on failed.
FooFailed(W) ==
    /\ W.g.ISPaneP # NULL
    /\ W.g.ISDir = 1
    /\ W.g.ISStr = <<102, 111, 111>>
    /\ W.g.ISOriginPos = 0
    /\ W.g.ISDoWrap = 1
    /\ W.g.ISMatchPos = 8
    /\ W.panes[W.g.ISPaneP].CursorPos = 11

\* C12: a forward scan that finds no match sets the wrap flag, and the next
\* C-s scans from position 0.  On "foo bar foo" with the search begun at 0:
\* typing f, o, o matches at 0, C-s matches at 8, C-s fails, C-s matches at 0
\* again, and Return ends the search with the cursor at 3 and the origin 0
\* pushed as the mark.
C12_SearchWraps ==
    /\ \* a C-s that scans onward and finds nothing sets the flag
       (/\ ForwardKey("C-s")
        /\ h.Pre.g.ISStr # <<>>
        /\ h.Pre.g.ISDoWrap = 0
        /\ FirstMatchFrom(Text(PaneBuf(h.Pre)), h.Pre.g.ISStr,
                          h.Pre.g.ISSearchPos + Len(h.Pre.g.ISStr)) = -1)
       => /\ g.ISDoWrap = 1
          /\ Cursor(Cur) = Cursor(h.Pre)
    /\ \* with the flag set, C-s scans from position 0
       (/\ ForwardKey("C-s")
        /\ h.Pre.g.ISStr # <<>>
        /\ h.Pre.g.ISDoWrap = 1)
       => LET M == FirstMatchFrom(Text(PaneBuf(h.Pre)), h.Pre.g.ISStr, 0)
          IN  IF M = -1 THEN g.ISDoWrap = 1
              ELSE /\ g.ISDoWrap = 0
                   /\ g.ISMatchPos = M
                   /\ Cursor(Cur) = M + Len(g.ISStr)
    /\ (/\ ForwardKey("o")
        /\ g.ISStr = <<102, 111, 111>>
        /\ g.ISOriginPos = 0
        /\ h.Pre.g.ISDoWrap = 0
        /\ h.Pre.g.ISMatchPos = 0) => FooAt(Cur, 0)
    /\ (ForwardKey("C-s") /\ FooAt(h.Pre, 0)) => FooAt(Cur, 8)
    /\ (ForwardKey("C-s") /\ FooAt(h.Pre, 8)) => FooFailed(Cur)
    /\ (ForwardKey("C-s") /\ FooFailed(h.Pre)) => FooAt(Cur, 0)
    /\ (ForwardKey("Return") /\ FooAt(h.Pre, 0))
       => /\ g.ISPaneP = NULL
          /\ Cursor(Cur) = 3
          /\ ED_BufferGetMarkPos(CurBuf) = 0

\* The whole run of C12 was made: the search found "foo" at 0 again after
\* the failed scan, and Return ended it.
C12_Witness ==
    /\ h.Ops = 8
    /\ h.Cmd = "ED_ISHandleChars"
    /\ h.Arg = "Return"
    /\ h.PCmd = "ED_ISHandleChars"
    /\ FooFailed(h.PPre)
    /\ FooAt(h.Pre, 0)
    /\ g.ISPaneP = NULL
    /\ Cursor(Cur) = 3
    /\ ED_BufferGetMarkPos(CurBuf) = 0

(***************************************************************************)
(* SpecAbort: C-g, C-x, C-u and 5 typed key by key on the file "aaa", in   *)
(* the query mode, in a query-replace session, in an incremental search,   *)
(* inside a key sequence and outside all of them.                          *)
(***************************************************************************)
\* The keys handled one by one.
AbortKeys == {"C-g", "C-x", "C-u", "5"}

\* What is typed in answer to the questions of query-replace: "a" or nothing.
AbortAnswers == {<<97>>, <<>>}

\* One key.  In the query mode only C-g is typed through this step, and no
\* digit is typed after C-u, which keeps ED_CmdMult at 1 or 4.
AKey ==
    \E Key \in AbortKeys :
        /\ g.QRPaneP # NULL => Key = "C-g"
        /\ g.CmdMultIn # 0 => Key # "5"
        /\ Do("ED_FrameHandleKey", Key, ED_FrameHandleKey(Cur, Key), MaxAbortOps)

\* M-%
AQueryReplace ==
    /\ NormalMode
    /\ Do("ED_CmdQueryReplace", NoArg,
          CommandReturn(ED_CmdQueryReplace(
              ED_FrameCommandMatch(Cur, NoArg, 0, "ED_CmdQueryReplace"), g.CurPaneP)),
          MaxAbortOps)

\* An answer and Enter, in the query mode.
AQRAnswer ==
    \E Resp \in AbortAnswers :
        /\ g.QRPaneP # NULL
        /\ Do("ED_FrameQRHandleChars", Resp, ED_FrameQRHandleChars(Cur, Resp), MaxAbortOps)

\* n, in a query-replace session.
AQREPKey ==
    /\ g.QRPaneP = NULL
    /\ g.QREPPaneP # NULL
    /\ Do("ED_QREPHandleChars", "n", ED_QREPHandleChars(Cur, "n"), MaxAbortOps)

\* C-s
AISearch ==
    /\ NormalMode
    /\ Do("ED_CmdISearch", NoArg,
          CommandReturn(ED_CmdISearch(
              ED_FrameCommandMatch(Cur, NoArg, 0, "ED_CmdISearch"), g.CurPaneP)),
          MaxAbortOps)

\* a or C-s, in an incremental search.
AISKey ==
    \E Key \in {"a", "C-s"} :
        /\ g.QRPaneP = NULL
        /\ g.QREPPaneP = NULL
        /\ g.ISPaneP # NULL
        /\ Do("ED_ISHandleChars", Key, ED_ISHandleChars(Cur, Key, ISKeyStr(Key)).W,
              MaxAbortOps)

NextAbort == AKey \/ AQueryReplace \/ AQRAnswer \/ AQREPKey \/ AISearch \/ AISKey

SpecAbort == InitQREP /\ [][NextAbort]_vars

(* C13.  C-g and the modal subsystems. *)
\* The last key was C-g.
TypedCtrlG == h.Cmd = "ED_FrameHandleKey" /\ h.Arg = "C-g"

\* What C-g does in the query mode, in an incremental search and inside a
\* key sequence: the first of them that is on is off afterwards, and C-g in
\* the query mode leaves the others as they were.
AbortsOthers ==
    IF h.Pre.g.QRPaneP # NULL
    THEN /\ g.QRPaneP = NULL
         /\ g.QREPPaneP = h.Pre.g.QREPPaneP
         /\ g.ISPaneP = h.Pre.g.ISPaneP
         /\ g.CmdStr = h.Pre.g.CmdStr
    ELSE IF h.Pre.g.ISPaneP # NULL
    THEN g.ISPaneP = NULL /\ g.CmdStr = <<>>
    ELSE h.Pre.g.CmdStr # <<>> => g.CmdStr = <<>>

\* C13 as stated: C-g turns off the first that is on of the query mode, the
\* query-replace session, the incremental search and the key sequence.
C13_Original ==
    TypedCtrlG =>
        IF h.Pre.g.QRPaneP = NULL /\ h.Pre.g.QREPPaneP # NULL
        THEN g.QREPPaneP = NULL
        ELSE AbortsOthers

\* C13 amended: C-g turns off the first that is on of the query mode, the
\* incremental search and the key sequence; in a query-replace session C-g
\* is refused and changes nothing, the session stays on.
C13_CtrlGAborts ==
    TypedCtrlG =>
        IF h.Pre.g.QRPaneP = NULL /\ h.Pre.g.QREPPaneP # NULL
        THEN Cur = h.Pre
        ELSE AbortsOthers

\* C-g was typed in a query-replace session that began after C-g had ended an
\* incremental search.
C13_Witness ==
    /\ h.Ops = 6
    /\ TypedCtrlG
    /\ h.Pre.g.QREPPaneP # NULL
    /\ g.QREPPaneP # NULL
    /\ h.Names[1] = "ED_CmdISearch"
    /\ h.Names[2] = "ED_FrameHandleKey"
    /\ h.Names[3] = "ED_CmdQueryReplace"

(***************************************************************************)
(* SpecExec: C-k, C-f and M-x with its answer, on the file of the three    *)
(* lines "a", "b" and "c".                                                 *)
(***************************************************************************)
ThreeLines == <<97, 10, 98, 10, 99>>

InitExec ==
    /\ bufs = StartOnFile(ThreeLines).bufs
    /\ panes = StartOnFile(ThreeLines).panes
    /\ kr = ED_KillRingInit
    /\ g = InitGlobals
    /\ h = InitHistory

\* The names typed in answer to M-x; no function has the last one.
ExecNames == {"kill-line", "quit", "exec-named-cmd", "no-such-cmd"}

\* C-k
XKillLine ==
    /\ NormalMode
    /\ Do("ED_CmdKillLine", NoArg,
          CommandReturn(ED_CmdKillLine(
              ED_FrameCommandMatch(Cur, NoArg, 0, "ED_CmdKillLine"), g.CurPaneP)),
          MaxExecOps)

\* C-f
XGoNextChar ==
    /\ NormalMode
    /\ Do("ED_CmdGoNextChar", NoArg,
          CommandReturn(ED_CmdGoNextChar(
              ED_FrameCommandMatch(Cur, NoArg, 0, "ED_CmdGoNextChar"), g.CurPaneP)),
          MaxExecOps)

\* M-x
XExecNamedCmd ==
    /\ NormalMode
    /\ Do("ED_CmdExecNamedCmd", NoArg,
          CommandReturn(ED_CmdExecNamedCmd(
              ED_FrameCommandMatch(Cur, NoArg, 0, "ED_CmdExecNamedCmd"), g.CurPaneP)),
          MaxExecOps)

\* A name and Enter, in the query mode.
XAnswer ==
    \E Resp \in ExecNames :
        /\ g.QRPaneP # NULL
        /\ Do("ED_FrameQRHandleChars", Resp, ED_FrameQRHandleChars(Cur, Resp), MaxExecOps)

NextExec == XKillLine \/ XGoNextChar \/ XExecNamedCmd \/ XAnswer

SpecExec == InitExec /\ [][NextExec]_vars

(* C14.  The last-command id and M-x. *)
\* The last three steps were C-k, M-x and the answer kill-line, and both
\* kills took text out.
KillExecKill ==
    /\ h.Cmd = "ED_FrameQRHandleChars"
    /\ h.Arg = "kill-line"
    /\ h.PCmd = "ED_CmdExecNamedCmd"
    /\ h.PPCmd = "ED_CmdKillLine"
    /\ h.PPre.g.CmdLastId = "ED_KillId"
    /\ KilledLen(h.Pre, Cur) > 0

\* What the dispatcher records: the id the command left in ED_CmdThisId, for
\* every command, M-x among them.
RecordsLastId ==
    /\ h.Cmd \in {"ED_CmdKillLine", "ED_CmdGoNextChar", "ED_CmdExecNamedCmd"}
       => g.CmdLastId = g.CmdThisId
    /\ h.Cmd = "ED_CmdGoNextChar" => g.CmdLastId = "ED_CmdGoNextChar"
    /\ (h.Cmd = "ED_CmdKillLine" /\ KilledLen(h.Pre, Cur) > 0) => g.CmdLastId = "ED_KillId"

\* C14 as stated: the dispatcher records each command as the last command,
\* but not M-x, so that kill-line run through M-x after a kill-line sees the
\* kill before M-x and adds to the same entry of the kill ring.
C14_Original ==
    /\ RecordsLastId
    /\ h.Cmd = "ED_CmdExecNamedCmd" => g.CmdLastId = h.Pre.g.CmdLastId
    /\ KillExecKill
       => /\ KillTop(kr) = KillTop(h.PPre.kr) \o KilledText(h.Pre, Cur)
          /\ KillEntries(kr) = KillEntries(h.PPre.kr)

\* C14 amended: the dispatcher records each command as the last command, M-x
\* too, as ED_ExecId; a command run through M-x sees M-x as the last command,
\* so that kill-line run through M-x after a kill-line makes a new entry of
\* the kill ring.
C14_LastCommand ==
    /\ RecordsLastId
    /\ h.Cmd = "ED_CmdExecNamedCmd" => g.CmdLastId = "ED_ExecId"
    /\ (/\ h.Cmd = "ED_FrameQRHandleChars"
        /\ h.Arg \in {"kill-line", "quit"})
       => /\ h.Pre.g.CmdLastId = "ED_ExecId"
          /\ g.CmdLastId = g.CmdThisId
          /\ g.QRPaneP = NULL
    /\ KillExecKill
       => /\ KillTop(kr) = KilledText(h.Pre, Cur)
          /\ KillTop(h.PPre.kr) = KillRingEntry(kr, KillWrap(kr.TopI - 1))
          /\ Cardinality(KillEntries(kr)) = Cardinality(KillEntries(h.PPre.kr)) + 1

\* C-k, M-x and kill-line were typed at the start of the buffer: the ring
\* holds "a" and, on top, the newline.
C14_Witness ==
    /\ h.Ops = 3
    /\ KillExecKill
    /\ KillTop(kr) = <<10>>
    /\ KillTop(h.PPre.kr) = <<97>>
    /\ Text(CurBuf) = <<98, 10, 99>>

(***************************************************************************)
(* Frames and panes.  g.Frames maps a frame to its record.  The list of    *)
(* frames (ED_FirstFrameP and the links) is the sequence g.FrameList, and  *)
(* the panes of a frame from top to bottom (FirstPaneP and the links) are  *)
(* the sequence Panes of its record.  A frame's height is counted in text  *)
(* rows.  Frames and panes get addresses never used before, so a pointer   *)
(* to a freed pane points to no pane.                                      *)
(***************************************************************************)
ED_PANEMINROWCOUNT == 5

\* FracRowCount is a 64-bit number in 32.32 fixed point.  It is kept as its
\* three parts <<Hi, Mid, Lo>>, of value Hi * 2^32 + Mid * 2^16 + Lo with
\* Mid and Lo below 2^16, and the arithmetic of the program is done part by
\* part, exactly.
Limb == 65536

\* (Int64)RowCount << 32
FracOfRows(Rows) == <<Rows, 0, 0>>

\* (Frac + 0x80000000LL) >> 32
FracToRows(Frac) == Frac[1] + (IF Frac[2] >= Limb \div 2 THEN 1 ELSE 0)

\* Frac / D, the division of C on numbers that are not negative.
FracDiv(Frac, D) ==
    LET T2 == (Frac[1] % D) * Limb + Frac[2]
        T3 == (T2 % D) * Limb + Frac[3]
    IN  <<Frac[1] \div D, T2 \div D, T3 \div D>>

\* Frac * M
FracMul(Frac, M) ==
    LET P3 == Frac[3] * M
        P2 == Frac[2] * M + P3 \div Limb
    IN  <<Frac[1] * M + P2 \div Limb, P2 % Limb, P3 % Limb>>

\* A + B
FracAdd(A, B) ==
    LET S3 == A[3] + B[3]
        S2 == A[2] + B[2] + S3 \div Limb
    IN  <<A[1] + B[1] + S2 \div Limb, S2 % Limb, S3 % Limb>>

\* A - B, for A >= B
FracSub(A, B) ==
    LET D3 == A[3] - B[3]
        D2 == A[2] - B[2] - (IF D3 < 0 THEN 1 ELSE 0)
    IN  <<A[1] - B[1] - (IF D2 < 0 THEN 1 ELSE 0), D2 % Limb, D3 % Limb>>

\* The panes of a frame, as a set.
FramePanes(W, FrameP) == {W.g.Frames[FrameP].Panes[i] : i \in DOMAIN W.g.Frames[FrameP].Panes}

\* ED_PaneNew
ED_PaneNew(W, FrameP, NewBufP) ==
    LET PaneP == W.g.PaneN + 1
        Rows == W.g.Frames[FrameP].RowCount - 1
        Pane == [BufP |-> NULL, CursorPos |-> 0, PanePos |-> 0, FrameP |-> FrameP,
                 TopRow |-> 0, RowCount |-> Rows, FracRowCount |-> FracOfRows(Rows)]
        W1 == [W EXCEPT !.g.PaneN = PaneP,
                        !.panes = [p \in DOMAIN W.panes \cup {PaneP} |->
                                      IF p = PaneP THEN Pane ELSE W.panes[p]],
                        !.g.Frames[FrameP].Panes = <<PaneP>>,
                        !.g.Frames[FrameP].CurPaneP = PaneP,
                        !.g.Frames[FrameP].PaneCount = @ + 1]
    IN  IF NewBufP = NULL
        THEN [W1 EXCEPT !.panes[PaneP].BufP = Head(W.g.BufList),
                        !.bufs[Head(W.g.BufList)].PaneRefCount = @ + 1]
        ELSE ED_PaneGetNewBuf(W1, PaneP, NewBufP)

\* ED_FrameNew for a window RowCount text rows high.
ED_FrameNew(W, RowCount, BufP) ==
    LET FrameP == W.g.FrameN + 1
        Frame == [Panes |-> <<>>, CurPaneP |-> NULL, PaneCount |-> 0,
                  RowCount |-> RowCount, Focus |-> 0, NoWin |-> 0]
    IN  ED_PaneNew([W EXCEPT !.g.FrameN = FrameP,
                             !.g.Frames = [f \in DOMAIN W.g.Frames \cup {FrameP} |->
                                              IF f = FrameP THEN Frame ELSE W.g.Frames[f]],
                             !.g.FrameList = <<FrameP>> \o @,
                             !.g.CurFrameP = FrameP],
                   FrameP, BufP)

\* ED_CmdNewFrame
ED_CmdNewFrame(W, PaneP) ==
    ED_FrameNew(W, W.g.Frames[W.panes[PaneP].FrameP].RowCount, W.panes[PaneP].BufP)

\* ED_ISAbortOut
ED_ISAbortOut(W, Msg) ==
    ED_FrameSetEchoS(
        [W EXCEPT !.bufs[W.panes[W.g.ISPaneP].BufP] = ED_BufferPushMark(@, W.g.ISOriginPos),
                  !.g.ISPaneP = NULL],
        Msg)

\* ED_QREPAbortOut
ED_QREPAbortOut(W, Msg) ==
    LET W1 == IF W.g.ISPaneP # NULL
              THEN [W EXCEPT !.bufs[W.panes[W.g.QREPPaneP].BufP] =
                                 ED_BufferPushMark(@, W.g.ISOriginPos)]
              ELSE W
    IN  ED_FrameSetEchoS([W1 EXCEPT !.g.QREPPaneP = NULL, !.g.ISPaneP = NULL], Msg)

\* ED_FrameHandleEvent, the case FocusIn that always forgets the parked
\* selection and never restores it.
FocusIn_NoRestore(W, FP) ==
    IF W.g.Frames[FP].NoWin # 0 THEN W
    ELSE [W EXCEPT !.g.CurFrameP = FP, !.g.Frames[FP].Focus = 1, !.g.LastSelPaneP = NULL]

\* ED_FrameHandleEvent, the case FocusIn of an event whose mode is not
\* NotifyUngrab.
FocusIn(W, FP) ==
    IF W.g.Frames[FP].NoWin # 0 THEN W
    ELSE [W EXCEPT !.g.CurFrameP = FP,
                   !.g.Frames[FP].Focus = 1,
                   !.g.SelPaneP = IF W.g.LastSelPaneP = W.g.Frames[FP].CurPaneP
                                  THEN W.g.LastSelPaneP ELSE @,
                   !.g.LastSelPaneP = NULL]

\* ED_FrameHandleEvent, the case FocusOut of an event whose mode is neither
\* NotifyGrab nor NotifyUngrab.
FocusOut(W, FP) ==
    IF W.g.Frames[FP].NoWin # 0 \/ W.g.Frames[FP].Focus = 0 THEN W
    ELSE LET W1 == IF W.g.QRPaneP # NULL
                   THEN ED_FrameQRAbortOut(W, "ED_STR_EchoAbort") ELSE W
             W2 == IF W1.g.QREPPaneP # NULL
                   THEN ED_QREPAbortOut(W1, "ED_STR_EchoAbort") ELSE W1
             W3 == IF W2.g.ISPaneP # NULL
                   THEN ED_ISAbortOut(W2, "ED_STR_EchoAbort") ELSE W2
             DidAbort == W.g.QRPaneP # NULL \/ W1.g.QREPPaneP # NULL \/ W2.g.ISPaneP # NULL
             W4 == IF DidAbort THEN W3 ELSE [W3 EXCEPT !.g.Echo = ""]
         IN  [W4 EXCEPT !.g.Frames[FP].Focus = 0,
                        !.g.LastSelPaneP = W4.g.SelPaneP,
                        !.g.SelPaneP = NULL]

\* The state in which ED_FrameHandleKey gets a key for frame FP: the pane
\* it works on is the current pane of that frame.
KeyToFrame(W, FP) == [W EXCEPT !.g.CurPaneP = W.g.Frames[FP].CurPaneP]

\* The window with the input focus, as the X server sees it: the frame whose
\* last focus event was a FocusIn.
FocusFrames == {f \in DOMAIN g.Frames : g.Frames[f].Focus = 1 /\ g.Frames[f].NoWin = 0}

\* The editor started on a file holding Data, in a window RowCount rows high.
StartInFrame(Data, RowCount) ==
    ED_FrameNew(ED_BufferReadFile([NoState EXCEPT !.g.BufList = <<1>>], 1, Data), RowCount, 1)

(***************************************************************************)
(* Focus changes: a file of three bytes in one frame, further frames made  *)
(* with C-x 5 2, a selection made with Shift and the right arrow, and the  *)
(* focus events of the X server.  The server gives the focus to one window *)
(* at a time, and keys go to the window that has it.  h.Parked is the      *)
(* selection each frame held when it last lost the focus, and h.Due the    *)
(* one the frame of the last FocusIn held when it lost the focus.          *)
(***************************************************************************)
FocusRows == 11

\* The file: abc
Abc == <<97, 98, 99>>

NoSel == [PaneP |-> NULL, MarkPos |-> 0]

\* The state the editor starts in: its window has been given the focus.
StartFocus == FocusIn(StartInFrame(Abc, FocusRows), 1)

InitFocus ==
    /\ bufs = StartInFrame(Abc, FocusRows).bufs
    /\ panes = StartInFrame(Abc, FocusRows).panes
    /\ kr = ED_KillRingInit
    /\ g = StartFocus.g
    /\ h = [Ops |-> 0, Names |-> <<>>, Cmd |-> "", PCmd |-> "", PPCmd |-> "",
            Arg |-> <<>>, Pre |-> <<>>, PPre |-> <<>>,
            Parked |-> [f \in 1 .. MaxFrames + 1 |-> NoSel], Due |-> NoSel]

\* The step of Do, with the selections parked after it and the one due.
DoFocus(Name, Arg, W2, Parked, Due) ==
    /\ h.Ops < MaxFocusOps
    /\ bufs' = W2.bufs
    /\ panes' = W2.panes
    /\ kr' = W2.kr
    /\ g' = W2.g
    /\ h' = [Ops |-> h.Ops + 1, Names |-> Append(h.Names, Name),
             Cmd |-> Name, PCmd |-> h.Cmd, PPCmd |-> h.PCmd,
             Arg |-> Arg, Pre |-> Cur, PPre |-> h.Pre,
             Parked |-> Parked, Due |-> Due]

\* The right arrow, with Shift or without, in the frame that has the focus.
FGoNextChar ==
    \E FP \in FocusFrames, Shift \in {0, 1} :
        /\ NormalMode
        /\ DoFocus("ED_CmdGoNextChar", Shift,
                   CommandReturn(ED_CmdGoNextChar(
                       ED_FrameCommandMatch(KeyToFrame(Cur, FP), NoArg, Shift,
                                            "ED_CmdGoNextChar"),
                       g.Frames[FP].CurPaneP)),
                   h.Parked, NoSel)

\* C-x 5 2 in the frame that has the focus.
FNewFrame ==
    \E FP \in FocusFrames :
        /\ NormalMode
        /\ g.FrameN < MaxFrames
        /\ DoFocus("ED_CmdNewFrame", FP,
                   CommandReturn(ED_CmdNewFrame(
                       ED_FrameCommandMatch(KeyToFrame(Cur, FP), NoArg, 0, "ED_CmdNewFrame"),
                       g.Frames[FP].CurPaneP)),
                   h.Parked, NoSel)

\* The window of frame FP loses the focus.
FFocusOut ==
    \E FP \in FocusFrames :
        DoFocus("FocusOut", FP, FocusOut(Cur, FP),
                [h.Parked EXCEPT ![FP] = [PaneP |-> g.SelPaneP, MarkPos |-> g.SelMarkPos]],
                NoSel)

\* The window of frame FP gets the focus, which no window has.
FFocusIn ==
    \E FP \in DOMAIN g.Frames :
        /\ FocusFrames = {}
        /\ DoFocus("FocusIn", FP, FocusIn(Cur, FP),
                   [h.Parked EXCEPT ![FP] = NoSel], h.Parked[FP])

NextFocus == FGoNextChar \/ FNewFrame \/ FFocusOut \/ FFocusIn

SpecFocus == InitFocus /\ [][NextFocus]_vars

(* C15.  The selection across focus changes. *)
\* The frame that held a selection when it lost the focus has the focus back.
FocusBack == h.Cmd = "FocusIn" /\ h.Due.PaneP # NULL

\* The selection the frame held when it lost the focus is the active one.
SelectionBack == g.SelPaneP = h.Due.PaneP /\ g.SelMarkPos = h.Due.MarkPos

\* No other frame got the focus in between: the frame that gets the focus is
\* the one that lost it last.
NoFrameBetween == h.PCmd = "FocusOut" /\ h.PPre.g.Frames[h.Arg].Focus = 1

\* C15 as stated: when the frame holding the selection loses the focus no
\* selection is active, and when it regains the focus the same selection
\* (same pane, same mark position) is active again, whatever focus changes
\* of other frames happened in between.
C15_Original ==
    /\ h.Cmd = "FocusOut" => g.SelPaneP = NULL
    /\ FocusBack => SelectionBack

\* C15: when the frame holding the selection loses the focus no selection
\* is active, and when it regains the focus before any other frame got it,
\* the same selection (same pane, same mark position) is active again.
C15_SelectionParked ==
    /\ h.Cmd = "FocusOut" => g.SelPaneP = NULL
    /\ FocusBack /\ NoFrameBetween => SelectionBack

\* A selection from position 0 to 1 was parked and is back after the frame
\* lost the focus and got it again.
C15_Witness ==
    /\ FocusBack
    /\ NoFrameBetween
    /\ h.Due.MarkPos = 0
    /\ g.SelPaneP = g.Frames[h.Arg].CurPaneP
    /\ panes[g.SelPaneP].CursorPos = 1

(***************************************************************************)
(* Splitting, killing and resizing panes, and resizing and killing frames. *)
(***************************************************************************)
\* The place of pane PaneP in the chain of its frame.
PaneIndex(W, PaneP) ==
    LET Chain == W.g.Frames[W.panes[PaneP].FrameP].Panes
    IN  CHOOSE i \in DOMAIN Chain : Chain[i] = PaneP

\* PaneP->NextPaneP and PaneP->PrevPaneP
NextPaneP(W, PaneP) ==
    LET Chain == W.g.Frames[W.panes[PaneP].FrameP].Panes
    IN  IF PaneIndex(W, PaneP) < Len(Chain) THEN Chain[PaneIndex(W, PaneP) + 1] ELSE NULL

PrevPaneP(W, PaneP) ==
    LET Chain == W.g.Frames[W.panes[PaneP].FrameP].Panes
    IN  IF PaneIndex(W, PaneP) > 1 THEN Chain[PaneIndex(W, PaneP) - 1] ELSE NULL

\* sc_SAStoreFreeBlock(&ED_PaneStore, PaneP)
FreePane(W, PaneP) == [W EXCEPT !.panes = [p \in DOMAIN W.panes \ {PaneP} |-> W.panes[p]]]

\* ED_PaneSplit.  The scrolling that keeps the cursor on the smaller panes
\* is not modelled.
ED_PaneSplit(W, PaneP) ==
    LET P == W.panes[PaneP]
        NewPaneP == W.g.PaneN + 1
        Chain == W.g.Frames[P.FrameP].Panes
        I == PaneIndex(W, PaneP)
        TotalRows == P.RowCount
        TotalFracRows == P.FracRowCount
        TopFrac == FracDiv(TotalFracRows, 2)
        TopRows == FracToRows(TopFrac)
        NewPane == [BufP |-> P.BufP, CursorPos |-> P.CursorPos, PanePos |-> P.PanePos,
                    FrameP |-> P.FrameP, TopRow |-> P.TopRow + TopRows,
                    RowCount |-> TotalRows - TopRows,
                    FracRowCount |-> FracSub(TotalFracRows, TopFrac)]
    IN  IF P.RowCount < 2 * ED_PANEMINROWCOUNT THEN W
        ELSE [W EXCEPT !.g.PaneN = NewPaneP,
                       !.panes = [p \in DOMAIN W.panes \cup {NewPaneP} |->
                                     IF p = NewPaneP THEN NewPane
                                     ELSE IF p = PaneP
                                     THEN [P EXCEPT !.FracRowCount = TopFrac,
                                                    !.RowCount = TopRows]
                                     ELSE W.panes[p]],
                       !.bufs[P.BufP].PaneRefCount = @ + 1,
                       !.g.Frames[P.FrameP].Panes =
                           SubSeq(Chain, 1, I) \o <<NewPaneP>> \o SubSeq(Chain, I + 1, Len(Chain)),
                       !.g.Frames[P.FrameP].PaneCount = @ + 1]

\* ED_PaneKill.  The program writes the cursor of the pane into the record
\* of its buffer after ED_BufferKill may have freed that record; in the
\* model a freed buffer has no record to write to.
ED_PaneKill(W, PaneP) ==
    LET P == W.panes[PaneP]
        FrameP == P.FrameP
        Prev == PrevPaneP(W, PaneP)
        NP == NextPaneP(W, PaneP)
        Unlinked == SelectSeq(W.g.Frames[FrameP].Panes, LAMBDA p : p # PaneP)
        W1 == IF Prev # NULL
              THEN [W EXCEPT !.g.Frames[FrameP].CurPaneP = Prev,
                             !.panes[Prev].FracRowCount = FracAdd(@, P.FracRowCount),
                             !.panes[Prev].RowCount = @ + P.RowCount,
                             !.g.Frames[FrameP].Panes = Unlinked]
              ELSE IF NP # NULL
              THEN [W EXCEPT !.g.Frames[FrameP].CurPaneP = NP,
                             !.panes[NP].FracRowCount = FracAdd(@, P.FracRowCount),
                             !.panes[NP].RowCount = @ + P.RowCount,
                             !.panes[NP].TopRow = @ - P.RowCount,
                             !.panes[NP].PanePos =
                                 ED_BufferGetPosMinusRows(W.bufs[W.panes[NP].BufP], @, P.RowCount,
                                                          RowChars),
                             !.g.Frames[FrameP].Panes = Unlinked]
              ELSE W
        W2 == [W1 EXCEPT !.g.Frames[FrameP].PaneCount = @ - 1,
                         !.bufs[P.BufP].PaneRefCount = @ - 1]
        W3 == IF "INFOONLY" \in W2.bufs[P.BufP].Flags THEN ED_BufferKill(W2, P.BufP) ELSE W2
        W4 == IF P.BufP \in DOMAIN W3.bufs
              THEN [W3 EXCEPT !.bufs[P.BufP].CursorPos = P.CursorPos,
                              !.bufs[P.BufP].PanePos = P.PanePos]
              ELSE W3
    IN  IF W.g.Frames[FrameP].PaneCount = 1 THEN W ELSE FreePane(W4, PaneP)

\* ED_PaneResize that gives the pane its rows without taking them from the
\* next pane.
ED_PaneResize_KeepsNext(W, PaneP, Delta) ==
    IF PaneP = NULL \/ NextPaneP(W, PaneP) = NULL THEN [W |-> W, Ret |-> 0]
    ELSE [W |-> [W EXCEPT !.panes[PaneP].RowCount = @ + Delta], Ret |-> 1]

\* ED_PaneResize: the state and the value returned.  The scrolling that
\* keeps the cursors on the panes is not modelled.
ED_PaneResize(W, PaneP, Delta) ==
    LET NextP == IF PaneP = NULL THEN NULL ELSE NextPaneP(W, PaneP)
        Shrunk(Rows) == IF Rows < ED_PANEMINROWCOUNT THEN ED_PANEMINROWCOUNT ELSE Rows
        D == IF Delta > 0
             THEN W.panes[NextP].RowCount - Shrunk(W.panes[NextP].RowCount - Delta)
             ELSE Shrunk(W.panes[PaneP].RowCount + Delta) - W.panes[PaneP].RowCount
    IN  IF PaneP = NULL \/ NextP = NULL THEN [W |-> W, Ret |-> 0]
        ELSE IF D # 0
        THEN [W |-> [W EXCEPT !.panes[PaneP].RowCount = @ + D,
                              !.panes[NextP].TopRow = @ + D,
                              !.panes[NextP].RowCount = @ - D,
                              !.panes[PaneP].FracRowCount = FracOfRows(W.panes[PaneP].RowCount + D),
                              !.panes[NextP].FracRowCount = FracOfRows(W.panes[NextP].RowCount - D)],
              Ret |-> 1]
        ELSE [W |-> W, Ret |-> 0]

ED_GIANTROWCOUNT == 8192

\* The sum of the RowCount of the panes in Chain.
RECURSIVE RowsUsedBy(_, _)
RowsUsedBy(W, Chain) ==
    IF Chain = <<>> THEN 0 ELSE W.panes[Head(Chain)].RowCount + RowsUsedBy(W, Tail(Chain))

\* ED_FrameSetSize, the pass that expands every pane: FracRowCount becomes
\* (FracRowCount / OldRowCount) * ED_GIANTROWCOUNT.
ExpandPanes(W, Chain, OldRowCount) ==
    [W EXCEPT !.panes = [p \in DOMAIN W.panes |->
        IF \E i \in DOMAIN Chain : Chain[i] = p
        THEN LET Frac == FracMul(FracDiv(W.panes[p].FracRowCount, OldRowCount),
                                 ED_GIANTROWCOUNT)
             IN  [W.panes[p] EXCEPT !.FracRowCount = Frac,
                                    !.RowCount = IF FracToRows(Frac) < ED_PANEMINROWCOUNT
                                                 THEN ED_PANEMINROWCOUNT
                                                 ELSE FracToRows(Frac)]
        ELSE W.panes[p]]]

\* ED_FrameSetSize, one pass that compresses every pane: FracRowCount becomes
\* (FracRowCount / DivCount) * MulCount.
CompressPanes(W, Chain, DivCount, MulCount) ==
    [W EXCEPT !.panes = [p \in DOMAIN W.panes |->
        IF \E i \in DOMAIN Chain : Chain[i] = p
        THEN LET Frac == FracMul(FracDiv(W.panes[p].FracRowCount, DivCount), MulCount)
             IN  [W.panes[p] EXCEPT !.FracRowCount = Frac,
                                    !.RowCount = IF FracToRows(Frac) <= ED_PANEMINROWCOUNT
                                                 THEN ED_PANEMINROWCOUNT
                                                 ELSE FracToRows(Frac)]
        ELSE W.panes[p]]]

\* ED_FrameSetSize, the loop of compressing passes.  A pass entered with
\* DivCount = 0 divides by zero, which is undefined: the loop is left there,
\* CompressPasses tells so, and no run is followed beyond it.
RECURSIVE CompressLoop(_, _, _, _, _)
CompressLoop(W, Chain, DivCount, MulCount, RowCount) ==
    IF MulCount < DivCount /\ DivCount # 0
    THEN LET W1 == CompressPanes(W, Chain, DivCount, MulCount)
             MinPanes == {i \in DOMAIN Chain :
                             W1.panes[Chain[i]].RowCount = ED_PANEMINROWCOUNT}
             MinPaneRowsUsed == ED_PANEMINROWCOUNT * Cardinality(MinPanes)
             BigPaneRowsUsed == RowsUsedBy(W1, Chain) - MinPaneRowsUsed
         IN  CompressLoop(W1, Chain, BigPaneRowsUsed, RowCount - MinPaneRowsUsed, RowCount)
    ELSE W

\* ED_FrameSetSize, the loop of compressing passes: the passes made, and
\* whether a pass was entered with DivCount = 0.
RECURSIVE CompressPasses(_, _, _, _, _, _)
CompressPasses(W, Chain, DivCount, MulCount, RowCount, N) ==
    IF MulCount < DivCount /\ DivCount # 0
    THEN LET W1 == CompressPanes(W, Chain, DivCount, MulCount)
             MinPanes == {i \in DOMAIN Chain :
                             W1.panes[Chain[i]].RowCount = ED_PANEMINROWCOUNT}
             MinPaneRowsUsed == ED_PANEMINROWCOUNT * Cardinality(MinPanes)
             BigPaneRowsUsed == RowsUsedBy(W1, Chain) - MinPaneRowsUsed
         IN  CompressPasses(W1, Chain, BigPaneRowsUsed, RowCount - MinPaneRowsUsed,
                            RowCount, N + 1)
    ELSE IF MulCount < DivCount THEN [Passes |-> N, DivZero |-> TRUE]
    ELSE [Passes |-> N, DivZero |-> FALSE]

\* ED_FrameSetSize: the passes of the loop for a window that is now
\* NewRowCount text rows high.
FrameSetSizePasses(W, FrameP, NewRowCount) ==
    LET OldRowCount == W.g.Frames[FrameP].RowCount
        Chain == W.g.Frames[FrameP].Panes
        RowCount == NewRowCount - 1
        W2 == IF RowCount > OldRowCount - 1
              THEN ExpandPanes(W, Chain, OldRowCount - 1) ELSE W
        DivCount == IF RowCount > OldRowCount - 1
                    THEN RowsUsedBy(W2, Chain) ELSE OldRowCount - 1
    IN  IF NewRowCount = OldRowCount THEN [Passes |-> 0, DivZero |-> FALSE]
        ELSE CompressPasses(W2, Chain, DivCount, RowCount, RowCount, 0)

\* ED_FrameSetSize, the final pass: the tops of the panes.
RECURSIVE AssignTops(_, _, _)
AssignTops(W, Chain, RowsUsed) ==
    IF Chain = <<>> THEN W
    ELSE AssignTops([W EXCEPT !.panes[Head(Chain)].TopRow = RowsUsed], Tail(Chain),
                    RowsUsed + W.panes[Head(Chain)].RowCount)

\* ED_FrameSetSize for a window that is NewRowCount text rows high.  The
\* width of the window and the positions on the display are not modelled.
ED_FrameSetSize(W, FrameP, NewRowCount, DoPanes) ==
    LET OldRowCount == W.g.Frames[FrameP].RowCount
        Chain == W.g.Frames[FrameP].Panes
        RowCount == NewRowCount - 1
        W1 == [W EXCEPT !.g.Frames[FrameP].RowCount = NewRowCount]
        W2 == IF RowCount > OldRowCount - 1
              THEN ExpandPanes(W1, Chain, OldRowCount - 1) ELSE W1
        DivCount == IF RowCount > OldRowCount - 1
                    THEN RowsUsedBy(W2, Chain) ELSE OldRowCount - 1
        W3 == AssignTops(CompressLoop(W2, Chain, DivCount, RowCount, RowCount), Chain, 0)
        LastPaneP == Chain[Len(Chain)]
        W4 == [W3 EXCEPT !.panes[LastPaneP].RowCount = @ + RowCount - RowsUsedBy(W3, Chain)]
        W5 == IF DoPanes # 0 /\ NewRowCount # OldRowCount THEN W4 ELSE W1
    IN  IF DoPanes # 0 /\ W.g.QRPaneP = NULL /\ W.g.QREPPaneP = NULL /\ W.g.ISPaneP = NULL
        THEN [W5 EXCEPT !.g.Echo = ""] ELSE W5

\* ED_FrameHandleEvent, the case ConfigureNotify for a window that is now
\* NewRowCount text rows high.
ConfigureNotify(W, FP, NewRowCount) ==
    IF W.g.Frames[FP].NoWin # 0 THEN W ELSE ED_FrameSetSize(W, FP, NewRowCount, 1)

\* ED_PaneModeWinHandleEvent, the case MotionNotify that moves the mode line
\* of the pane by DeltaRow rows.
MotionNotify(W, PaneP, DeltaRow) ==
    IF DeltaRow # 0 THEN ED_PaneResize(W, PaneP, DeltaRow).W ELSE W

\* ED_FrameKill
RECURSIVE FrameKillPanes(_, _)
FrameKillPanes(W, Chain) ==
    IF Chain = <<>> THEN W
    ELSE LET PaneP == Head(Chain)
             BufP == W.panes[PaneP].BufP
             W1 == [W EXCEPT !.bufs[BufP].PaneRefCount = @ - 1,
                             !.bufs[BufP].CursorPos = W.panes[PaneP].CursorPos,
                             !.bufs[BufP].PanePos = W.panes[PaneP].PanePos]
         IN  FrameKillPanes(IF "INFOONLY" \in W1.bufs[BufP].Flags
                            THEN ED_BufferKill(W1, BufP) ELSE W1,
                            Tail(Chain))

\* ED_FrameKill that leaves the reference counts of the buffers alone.
ED_FrameKill_KeepsCounts(W, FrameP) == [W EXCEPT !.g.Frames[FrameP].NoWin = 1]

ED_FrameKill(W, FrameP) ==
    [FrameKillPanes(W, W.g.Frames[FrameP].Panes) EXCEPT !.g.Frames[FrameP].NoWin = 1]

\* ED_FrameWinDestroyed
ED_FrameWinDestroyed(W, FrameP) ==
    [W EXCEPT !.panes = [p \in DOMAIN W.panes \ FramePanes(W, FrameP) |-> W.panes[p]],
              !.g.CurFrameP = IF @ = FrameP THEN NULL ELSE @,
              !.g.FrameList = SelectSeq(@, LAMBDA f : f # FrameP),
              !.g.Frames = [f \in DOMAIN W.g.Frames \ {FrameP} |-> W.g.Frames[f]]]

\* ED_CmdSplitPane
ED_CmdSplitPane(W, PaneP) == ED_PaneSplit(W, PaneP)

\* ED_CmdKillPane
ED_CmdKillPane(W, PaneP) == ED_PaneKill(W, PaneP)

\* ED_CmdKillOtherPanes, the loop from pane PP on: the state, and in Freed
\* the panes whose NextPaneP the loop read after ED_PaneKill had given their
\* block back to ED_PaneStore.  sc_SAStoreFreeBlock keeps the block inside
\* its rack and writes the link of the free list over the first bytes only
\* (Tag and Flags), and ED_PaneKill leaves the NextPaneP of the pane it
\* kills alone, so the value read is the one the pane had before the call.
RECURSIVE KillOtherPanesLoop(_, _, _, _)
KillOtherPanesLoop(W, PaneP, PP, Freed) ==
    IF PP = NULL THEN [W |-> W, Freed |-> Freed]
    ELSE LET W1 == IF PP # PaneP THEN ED_PaneKill(W, PP) ELSE W
         IN  KillOtherPanesLoop(W1, PaneP, NextPaneP(W, PP),
                                IF PP \in DOMAIN W1.panes THEN Freed ELSE Freed \cup {PP})

\* ED_CmdKillOtherPanes
ED_CmdKillOtherPanes(W, PaneP) ==
    LET FrameP == W.panes[PaneP].FrameP
    IN  IF W.g.Frames[FrameP].PaneCount > 1
        THEN KillOtherPanesLoop(W, PaneP, Head(W.g.Frames[FrameP].Panes), {}).W
        ELSE W

\* ED_CmdGoNextPane
ED_CmdGoNextPane(W, PaneP) ==
    LET FrameP == W.panes[PaneP].FrameP
    IN  IF W.g.Frames[FrameP].PaneCount > 1
        THEN [W EXCEPT !.g.Frames[FrameP].CurPaneP =
                           IF NextPaneP(W, PaneP) = NULL THEN Head(W.g.Frames[FrameP].Panes)
                           ELSE NextPaneP(W, PaneP)]
        ELSE W

\* ED_CmdDeleteFrame
ED_CmdDeleteFrame(W, PaneP) ==
    IF Len(W.g.FrameList) = 1
    THEN ED_FrameSetEchoS(W, "ED_STR_EchoDelOnlyFrame")
    ELSE ED_FrameKill(W, W.panes[PaneP].FrameP)

(***************************************************************************)
(* Pane layout: one frame on the file abc, its window PaneRows text rows   *)
(* high and with the focus.  The keys C-x 2, C-x 0 and C-x o, the drag of  *)
(* a mode line, and the window manager resizing the window, which keeps    *)
(* the window at or above the minimum size that ED_FrameResetWinMinSize    *)
(* asks for.                                                               *)
(***************************************************************************)
PaneRows == 21

ED_FRAMEMINROWCOUNT == 8

\* The heights the window manager gives the window, in text rows.
WinRows == {11, 16, 24, 31}

\* The rows a drag moves a mode line by.
DragRows == {-6, -1, 2}

StartPanes == FocusIn(StartInFrame(Abc, PaneRows), 1)

InitPanes ==
    /\ bufs = StartInFrame(Abc, PaneRows).bufs
    /\ panes = StartInFrame(Abc, PaneRows).panes
    /\ kr = ED_KillRingInit
    /\ g = StartPanes.g
    /\ h = InitHistory

\* ED_FrameResetWinMinSize: the least height of the window of frame FP.
WinMinRows(W, FP) ==
    IF W.g.Frames[FP].PaneCount * ED_PANEMINROWCOUNT + 1 < ED_FRAMEMINROWCOUNT
    THEN ED_FRAMEMINROWCOUNT
    ELSE W.g.Frames[FP].PaneCount * ED_PANEMINROWCOUNT + 1

\* C-x 2
PSplitPane ==
    \E FP \in FocusFrames :
        /\ NormalMode
        /\ Do("ED_CmdSplitPane", g.Frames[FP].CurPaneP,
              CommandReturn(ED_CmdSplitPane(
                  ED_FrameCommandMatch(KeyToFrame(Cur, FP), NoArg, 0, "ED_CmdSplitPane"),
                  g.Frames[FP].CurPaneP)),
              MaxPaneOps)

\* C-x 0
PKillPane ==
    \E FP \in FocusFrames :
        /\ NormalMode
        /\ Do("ED_CmdKillPane", g.Frames[FP].CurPaneP,
              CommandReturn(ED_CmdKillPane(
                  ED_FrameCommandMatch(KeyToFrame(Cur, FP), NoArg, 0, "ED_CmdKillPane"),
                  g.Frames[FP].CurPaneP)),
              MaxPaneOps)

\* C-x o
PGoNextPane ==
    \E FP \in FocusFrames :
        /\ NormalMode
        /\ Do("ED_CmdGoNextPane", g.Frames[FP].CurPaneP,
              CommandReturn(ED_CmdGoNextPane(
                  ED_FrameCommandMatch(KeyToFrame(Cur, FP), NoArg, 0, "ED_CmdGoNextPane"),
                  g.Frames[FP].CurPaneP)),
              MaxPaneOps)

\* The boundary under pane PaneP is moved by DeltaRow rows.
PResize ==
    \E PaneP \in DOMAIN panes, DeltaRow \in DragRows :
        Do("ED_PaneResize", <<PaneP, DeltaRow>>, ED_PaneResize(Cur, PaneP, DeltaRow).W,
           MaxPaneOps)

\* The window of frame FP is resized to NewRowCount rows.
PConfigureNotify ==
    \E FP \in DOMAIN g.Frames, NewRowCount \in WinRows :
        /\ NewRowCount >= WinMinRows(Cur, FP)
        /\ NewRowCount # g.Frames[FP].RowCount
        /\ Do("ED_FrameSetSize", <<FP, NewRowCount>>, ConfigureNotify(Cur, FP, NewRowCount),
              MaxPaneOps)

NextPanes == PSplitPane \/ PKillPane \/ PGoNextPane \/ PResize \/ PConfigureNotify

SpecPanes == InitPanes /\ [][NextPanes]_vars

\* The frames whose window exists.
LiveFrames(W) == {f \in DOMAIN W.g.Frames : W.g.Frames[f].NoWin = 0}

\* The panes of frame FP lie one under the other in the order of the chain,
\* from row 0 on.
Stacked(W, FP) ==
    LET Chain == W.g.Frames[FP].Panes
    IN  \A i \in DOMAIN Chain :
            W.panes[Chain[i]].TopRow = RowsUsedBy(W, SubSeq(Chain, 1, i - 1))

\* The panes of frame FP that were there before the last step are in the
\* order they were in.
SameOrder(FP) ==
    LET Old == h.Pre.g.Frames[FP].Panes
        New == g.Frames[FP].Panes
    IN  SelectSeq(Old, LAMBDA p : p \in FramePanes(Cur, FP))
            = SelectSeq(New, LAMBDA p : p \in FramePanes(h.Pre, FP))

(* C17.  The rows of the panes fill the frame. *)
\* C17: in every frame, after any split, pane kill, boundary resize or frame
\* resize, the row counts of the panes sum to the row count of the frame
\* minus 1, and the surviving panes are from top to bottom in the order
\* they were in.
C17_RowsFillFrame ==
    \A FP \in LiveFrames(Cur) :
        /\ RowsUsedBy(Cur, g.Frames[FP].Panes) = g.Frames[FP].RowCount - 1
        /\ Stacked(Cur, FP)
        /\ h.Ops > 0 /\ FP \in DOMAIN h.Pre.g.Frames => SameOrder(FP)

\* Three panes, after two splits, the drag of a boundary, the resizing of
\* the frame and the killing of a pane.
C17_Witness ==
    /\ h.Ops = 5
    /\ {h.Names[i] : i \in 1 .. 4} =
           {"ED_CmdSplitPane", "ED_PaneResize", "ED_FrameSetSize"}
    /\ h.Cmd = "ED_CmdKillPane"
    /\ g.Frames[1].PaneCount = 2
    /\ h.Pre.g.Frames[1].PaneCount = 3
    /\ g.Frames[1].RowCount # PaneRows

(* C18.  The minimum height of a pane. *)
\* The variables of the program are as they were before the last step.
Unchanged == Cur = h.Pre

\* Every pane of every frame has at least ED_PANEMINROWCOUNT rows.
AllPanesMin(W) == \A p \in DOMAIN W.panes : W.panes[p].RowCount >= ED_PANEMINROWCOUNT

\* The last step was a split or the move of a boundary.
SplitOrResize == h.Cmd \in {"ED_CmdSplitPane", "ED_PaneResize"}

\* C18: after any split or boundary resize every pane of the frame has at
\* least ED_PANEMINROWCOUNT rows: a split of a pane with fewer than twice
\* that many rows changes nothing, a boundary resize never takes either
\* adjacent pane below the minimum, and a resize on the last pane of a frame
\* changes nothing.
C18_MinRows ==
    /\ SplitOrResize => AllPanesMin(Cur)
    /\ h.Cmd = "ED_CmdSplitPane" /\ h.Pre.panes[h.Arg].RowCount < 2 * ED_PANEMINROWCOUNT
           => panes = h.Pre.panes /\ g.Frames = h.Pre.g.Frames
    /\ h.Cmd = "ED_PaneResize" /\ NextPaneP(h.Pre, h.Arg[1]) = NULL => Unchanged

(***************************************************************************)
(* Buffers and the panes that show them.                                   *)
(***************************************************************************)
\* ED_BufferNew of a buffer without a file, linked at the head of the list
\* of buffers; the record is a new one.
NewTempBuffer(W) ==
    LET BufP == W.g.BufN + 1
    IN  [ED_BufferNew(W, BufP, 0, FALSE) EXCEPT !.g.BufN = BufP, !.g.BufList = <<BufP>> \o @]

\* BufP->NextBufP and BufP->PrevBufP
BufIndex(W, BufP) == CHOOSE i \in DOMAIN W.g.BufList : W.g.BufList[i] = BufP

NextBufP(W, BufP) ==
    IF BufIndex(W, BufP) < Len(W.g.BufList) THEN W.g.BufList[BufIndex(W, BufP) + 1] ELSE NULL

PrevBufP(W, BufP) ==
    IF BufIndex(W, BufP) > 1 THEN W.g.BufList[BufIndex(W, BufP) - 1] ELSE NULL

\* The panes of the frames of the list Frames, frame after frame, each
\* frame from its first pane to its last.
RECURSIVE PanesOfFrames(_, _)
PanesOfFrames(W, Frames) ==
    IF Frames = <<>> THEN <<>>
    ELSE W.g.Frames[Head(Frames)].Panes \o PanesOfFrames(W, Tail(Frames))

\* ED_FrameKillBuf: the loops over the frames and their panes.
RECURSIVE FrameKillBufLoop(_, _, _, _)
FrameKillBufLoop(W, BufP, NewBufP, Todo) ==
    IF Todo = <<>> THEN W
    ELSE LET PaneP == Head(Todo)
             W1 == IF W.panes[PaneP].BufP # BufP THEN W
                   ELSE IF W.g.Frames[W.panes[PaneP].FrameP].PaneCount = 1
                   THEN ED_PaneGetNewBuf(W, PaneP, NewBufP)
                   ELSE ED_PaneKill(W, PaneP)
         IN  FrameKillBufLoop(W1, BufP, NewBufP, Tail(Todo))

\* ED_FrameKillBuf
ED_FrameKillBuf(W, BufP) ==
    LET W1 == IF NextBufP(W, BufP) = NULL /\ PrevBufP(W, BufP) = NULL
              THEN NewTempBuffer(W) ELSE W
        NewBufP == IF NextBufP(W, BufP) # NULL THEN NextBufP(W, BufP)
                   ELSE IF PrevBufP(W, BufP) # NULL THEN PrevBufP(W, BufP)
                   ELSE W1.g.BufN
    IN  ED_BufferKill(FrameKillBufLoop(W1, BufP, NewBufP, PanesOfFrames(W1, W1.g.FrameList)),
                      BufP)

\* The answers to the queries for a buffer: nothing typed, or a name that
\* is the beginning of no buffer's name.
BufAnswers == {"", "new"}

\* EDCB_KillBufFunc
EDCB_KillBufFunc(W, Resp) ==
    IF Resp = "" /\ W.g.QRTempBufP # NULL
    THEN [W |-> [ED_FrameKillBuf(W, W.g.QRTempBufP) EXCEPT !.g.QRPaneP = NULL], Ret |-> 0]
    ELSE [W |-> W, Ret |-> 1]

\* EDCB_SwitchBufFunc
EDCB_SwitchBufFunc(W, Resp) ==
    IF Resp = "" /\ W.g.QRTempBufP # NULL
    THEN [W |-> [ED_PaneGetNewBuf(W, W.g.QRPaneP, W.g.QRTempBufP) EXCEPT !.g.QRPaneP = NULL],
          Ret |-> 0]
    ELSE LET W1 == NewTempBuffer(W)
         IN  [W |-> [ED_PaneGetNewBuf(W1, W.g.QRPaneP, W1.g.BufN) EXCEPT !.g.QRPaneP = NULL],
              Ret |-> 0]

\* ED_CmdKillBuffer
ED_CmdKillBuffer(W, PaneP) ==
    ED_FrameQRAsk([W EXCEPT !.g.QRTempBufP = W.panes[PaneP].BufP], "EDCB_KillBufFunc")

\* ED_CmdSwitchBuffer
ED_CmdSwitchBuffer(W, PaneP) ==
    LET BufP == W.panes[PaneP].BufP
        Temp == IF NextBufP(W, BufP) # NULL THEN NextBufP(W, BufP) ELSE PrevBufP(W, BufP)
    IN  ED_FrameQRAsk([W EXCEPT !.g.QRTempBufP = IF Temp = NULL THEN BufP ELSE Temp],
                      "EDCB_SwitchBufFunc")

\* ED_FrameQRHandleChars on Enter, for the queries for a buffer.
QRHandleBufAnswer(W, Resp) ==
    Then(IF W.g.QRRespFP = "EDCB_KillBufFunc" THEN EDCB_KillBufFunc(W, Resp)
         ELSE EDCB_SwitchBufFunc(W, Resp),
         LAMBDA R :
    IF R.Ret # 0
    THEN [W EXCEPT !.g.QRLastCmd = "ED_QRBadCmd"]
    ELSE [R.W EXCEPT !.g.QRLastCmd = "ED_QRSomeCmd"])

(***************************************************************************)
(* Frames, panes and buffers together: one frame on the file abc, with the *)
(* focus.  The keys C-x 2, C-x 0, C-x o, C-x 5 2, C-x 5 0, C-x b and C-x k *)
(* with their answers, the right arrow with Shift or without, and the      *)
(* events FocusIn, FocusOut and DestroyNotify.  The server destroys a      *)
(* window before it gives the focus and its keys to another one, so that   *)
(* no key is handled between ED_FrameKill and the DestroyNotify event of   *)
(* the window.                                                             *)
(***************************************************************************)
InitWin ==
    /\ bufs = StartInFrame(Abc, PaneRows).bufs
    /\ panes = StartInFrame(Abc, PaneRows).panes
    /\ kr = ED_KillRingInit
    /\ g = StartPanes.g
    /\ h = InitHistory

\* No window is about to be destroyed.
NoDying == \A f \in DOMAIN g.Frames : g.Frames[f].NoWin = 0

\* The right arrow, with Shift or without.
WGoNextChar ==
    \E FP \in FocusFrames, Shift \in {0, 1} :
        /\ NormalMode /\ NoDying
        /\ Do("ED_CmdGoNextChar", Shift,
              CommandReturn(ED_CmdGoNextChar(
                  ED_FrameCommandMatch(KeyToFrame(Cur, FP), NoArg, Shift, "ED_CmdGoNextChar"),
                  g.Frames[FP].CurPaneP)),
              MaxWinOps)

\* C-x 2
WSplitPane ==
    \E FP \in FocusFrames :
        /\ NormalMode /\ NoDying
        /\ Do("ED_CmdSplitPane", g.Frames[FP].CurPaneP,
              CommandReturn(ED_CmdSplitPane(
                  ED_FrameCommandMatch(KeyToFrame(Cur, FP), NoArg, 0, "ED_CmdSplitPane"),
                  g.Frames[FP].CurPaneP)),
              MaxWinOps)

\* C-x 0
WKillPane ==
    \E FP \in FocusFrames :
        /\ NormalMode /\ NoDying
        /\ Do("ED_CmdKillPane", g.Frames[FP].CurPaneP,
              CommandReturn(ED_CmdKillPane(
                  ED_FrameCommandMatch(KeyToFrame(Cur, FP), NoArg, 0, "ED_CmdKillPane"),
                  g.Frames[FP].CurPaneP)),
              MaxWinOps)

\* C-x o
WGoNextPane ==
    \E FP \in FocusFrames :
        /\ NormalMode /\ NoDying
        /\ Do("ED_CmdGoNextPane", g.Frames[FP].CurPaneP,
              CommandReturn(ED_CmdGoNextPane(
                  ED_FrameCommandMatch(KeyToFrame(Cur, FP), NoArg, 0, "ED_CmdGoNextPane"),
                  g.Frames[FP].CurPaneP)),
              MaxWinOps)

\* C-x 5 2
WNewFrame ==
    \E FP \in FocusFrames :
        /\ NormalMode /\ NoDying
        /\ g.FrameN < MaxFrames
        /\ Do("ED_CmdNewFrame", FP,
              CommandReturn(ED_CmdNewFrame(
                  ED_FrameCommandMatch(KeyToFrame(Cur, FP), NoArg, 0, "ED_CmdNewFrame"),
                  g.Frames[FP].CurPaneP)),
              MaxWinOps)

\* C-x 5 0
WDeleteFrame ==
    \E FP \in FocusFrames :
        /\ NormalMode /\ NoDying
        /\ Do("ED_CmdDeleteFrame", FP,
              CommandReturn(ED_CmdDeleteFrame(
                  ED_FrameCommandMatch(KeyToFrame(Cur, FP), NoArg, 0, "ED_CmdDeleteFrame"),
                  g.Frames[FP].CurPaneP)),
              MaxWinOps)

\* C-x k
WKillBuffer ==
    \E FP \in FocusFrames :
        /\ NormalMode /\ NoDying
        /\ Do("ED_CmdKillBuffer", g.Frames[FP].CurPaneP,
              CommandReturn(ED_CmdKillBuffer(
                  ED_FrameCommandMatch(KeyToFrame(Cur, FP), NoArg, 0, "ED_CmdKillBuffer"),
                  g.Frames[FP].CurPaneP)),
              MaxWinOps)

\* C-x b
WSwitchBuffer ==
    \E FP \in FocusFrames :
        /\ NormalMode /\ NoDying
        /\ Do("ED_CmdSwitchBuffer", g.Frames[FP].CurPaneP,
              CommandReturn(ED_CmdSwitchBuffer(
                  ED_FrameCommandMatch(KeyToFrame(Cur, FP), NoArg, 0, "ED_CmdSwitchBuffer"),
                  g.Frames[FP].CurPaneP)),
              MaxWinOps)

\* An answer and Enter, in the query for a buffer.
WAnswer ==
    \E Resp \in BufAnswers :
        /\ g.QRPaneP # NULL /\ NoDying
        /\ g.BufN < MaxBufs
        /\ Do(g.QRRespFP, Resp, QRHandleBufAnswer(Cur, Resp), MaxWinOps)

\* The window of frame FP, which ED_FrameKill destroyed, is gone.
WDestroyNotify ==
    \E FP \in DOMAIN g.Frames :
        /\ g.Frames[FP].NoWin = 1
        /\ Do("ED_FrameWinDestroyed", FP, ED_FrameWinDestroyed(Cur, FP), MaxWinOps)

\* The window of frame FP loses the focus.
WFocusOut ==
    \E FP \in FocusFrames : Do("FocusOut", FP, FocusOut(Cur, FP), MaxWinOps)

\* The window of frame FP gets the focus, which no window has.
WFocusIn ==
    \E FP \in DOMAIN g.Frames :
        /\ FocusFrames = {}
        /\ g.Frames[FP].NoWin = 0
        /\ Do("FocusIn", FP, FocusIn(Cur, FP), MaxWinOps)

NextWin ==
    \/ WGoNextChar \/ WSplitPane \/ WKillPane \/ WGoNextPane \/ WNewFrame \/ WDeleteFrame
    \/ WKillBuffer \/ WSwitchBuffer \/ WAnswer \/ WDestroyNotify \/ WFocusOut \/ WFocusIn

SpecWin == InitWin /\ [][NextWin]_vars

(* C16.  The selection and the panes, frames and buffers that are killed. *)
\* Pane PaneP is none, or a pane that exists and shows a buffer that exists.
LivePane(PaneP) ==
    PaneP # NULL => PaneP \in DOMAIN panes /\ panes[PaneP].BufP \in DOMAIN bufs

\* C16: the pane of the selection, and the pane of the selection parked
\* when a frame lost the focus, is a pane that exists and shows a buffer
\* that exists.
C16_SelectionLive == LivePane(g.SelPaneP) /\ LivePane(g.LastSelPaneP)

(* C19.  The pane reference count of a buffer. *)
\* The panes of the frames that have a window.
ShownPanes == {p \in DOMAIN panes : g.Frames[panes[p].FrameP].NoWin = 0}

\* The panes that show buffer BufP.
PanesShowing(BufP) == {p \in ShownPanes : panes[p].BufP = BufP}

\* C19: the pane reference count of every buffer is the number of panes, in
\* all frames, that show it; and every pane shows a buffer that exists, that
\* is, no buffer was destroyed while a pane showed it.
C19_PaneRefCount ==
    /\ \A b \in DOMAIN bufs : bufs[b].PaneRefCount = Cardinality(PanesShowing(b))
    /\ \A p \in ShownPanes : panes[p].BufP \in DOMAIN bufs

\* A buffer was destroyed, one buffer is shown by panes of two frames, and
\* another by no pane.
C19_Witness ==
    /\ g.BufN > Cardinality(DOMAIN bufs)
    /\ \E b \in DOMAIN bufs :
           /\ bufs[b].PaneRefCount >= 2
           /\ \E p, q \in PanesShowing(b) : panes[p].FrameP # panes[q].FrameP
    /\ \E b \in DOMAIN bufs : bufs[b].PaneRefCount = 0

(***************************************************************************)
(* An insert seen from another pane.  One frame of two panes on one file   *)
(* of the letter a and newlines: pane 1 above, which gets the keys once    *)
(* the window has the focus, and pane 2 below.  Pane 2 starts at the start *)
(* of a row and shows its cursor; the cursor of pane 1 is anywhere.  The   *)
(* keys are the letter a and Enter, alone or after C-u 2.                  *)
(***************************************************************************)
OtherRows == 11

\* The files.
OtherTexts == UNION {[1 .. n -> {97, 10}] : n \in 1 .. MaxText}

\* The keys: a and Enter.
OtherKeys == {<<97>>, <<13>>}

\* The editor started on Data, after C-x 2.
StartOther(Data) == ED_PaneSplit(StartInFrame(Data, OtherRows), 1)

\* The positions at which a row starts, in buffer B.
RowStarts(B) == {ED_PaneFindLoc(B, 0, 0, q, RowChars, TRUE).RowStartPos : q \in 0 .. B.LastPos}

\* The pane that starts at PanePos shows position Pos.
Shows(B, PanePos, RowCount, Pos) ==
    /\ Pos >= PanePos
    /\ ED_PaneFindLoc(B, PanePos, StartRowCount(B, PanePos, RowChars), Pos, RowChars,
                      FALSE).Row <= RowCount - 2

\* The states the run may start in, on the file Data: Pos[1] and Pos[2] are
\* the cursors of the panes, and Pos[3] the start of pane 2.
OtherStartsOn(Data) ==
    LET W == StartOther(Data)
    IN  {[bufs |-> W.bufs,
          panes |-> [W.panes EXCEPT ![1].CursorPos = Pos[1],
                                    ![2].CursorPos = Pos[2],
                                    ![2].PanePos = Pos[3]],
          g |-> W.g] :
            Pos \in {Q \in (0 .. Len(Data)) \X (0 .. Len(Data)) \X (0 .. Len(Data)) :
                        /\ Q[3] \in RowStarts(W.bufs[1])
                        /\ Shows(W.bufs[1], Q[3], W.panes[2].RowCount, Q[2])}}

InitOther ==
    \E W \in UNION {OtherStartsOn(Data) : Data \in OtherTexts} :
        /\ bufs = W.bufs
        /\ panes = W.panes
        /\ kr = ED_KillRingInit
        /\ g = W.g
        /\ h = InitHistory

\* A key of OtherKeys in pane 1, alone or after C-u 2.  h.Arg is the
\* position of the insert and the number of bytes inserted.
OInsert ==
    \E Str \in OtherKeys, Prefix \in {<<>>, <<CtrlUNumber(2)>>} :
        /\ NormalMode
        /\ 1 \in FocusFrames
        /\ g.Frames[1].CurPaneP = 1
        /\ Do("ED_PaneInsertChars",
              <<panes[1].CursorPos, IF Prefix = <<>> THEN 1 ELSE 2>>,
              HandleInsertKey(KeyToFrame(Cur, 1), Prefix # <<>>,
                              IF Prefix = <<>> THEN NoArg ELSE Prefix[1], Str),
              MaxOtherOps)

\* The window gets the focus.
OFocusIn ==
    /\ FocusFrames = {}
    /\ Do("FocusIn", 1, FocusIn(Cur, 1), MaxOtherOps)

NextOther == OFocusIn \/ OInsert

SpecOther == InitOther /\ [][NextOther]_vars

(* C20.  The cursor and the start of another pane after an insert. *)
\* Pane 2 before the last insert and after it, the position of the insert
\* and the number of bytes inserted.
Before == h.Pre.panes[2]

After == panes[2]

InsertPos == h.Arg[1]

InsertCount == h.Arg[2]

\* Pane 2 started at the start of a line: at position 0 or after a newline.
StartedLine == Before.PanePos = 0 \/ ByteAt(h.Pre.bufs[1], Before.PanePos - 1) = 10

CursorShifted ==
    /\ Before.CursorPos > InsertPos => After.CursorPos = Before.CursorPos + InsertCount
    /\ Before.CursorPos < InsertPos => After.CursorPos = Before.CursorPos

\* The claim as it stands: the cursor and the start of the other pane are
\* shifted by the bytes inserted when they lie after the insert, and are
\* unchanged when they lie before it.
C20_Original ==
    h.Cmd = "ED_PaneInsertChars" =>
        /\ CursorShifted
        /\ Before.PanePos > InsertPos => After.PanePos = Before.PanePos + InsertCount
        /\ Before.PanePos < InsertPos => After.PanePos = Before.PanePos

\* C20: after pane 1 inserted n bytes at p, the cursor of pane 2 is shifted
\* by n when it lay after p and unchanged when it lay before p; the start
\* of pane 2 is shifted by n when it lay after p at the start of a line,
\* and unchanged when both it and the cursor lay before p.
C20_OtherPaneShift ==
    h.Cmd = "ED_PaneInsertChars" =>
        /\ CursorShifted
        /\ Before.PanePos > InsertPos /\ StartedLine =>
               After.PanePos = Before.PanePos + InsertCount
        /\ Before.PanePos < InsertPos /\ Before.CursorPos < InsertPos =>
               After.PanePos = Before.PanePos

\* Pane 2 started a line after the insert, and its start and cursor were
\* shifted.
C20_Witness ==
    /\ h.Cmd = "ED_PaneInsertChars"
    /\ Before.PanePos > InsertPos /\ StartedLine
    /\ Before.CursorPos > Before.PanePos
    /\ After.PanePos = Before.PanePos + InsertCount
    /\ After.CursorPos = Before.CursorPos + InsertCount

(***************************************************************************)
(* SpecXSel: the PRIMARY and CLIPBOARD selections.  One pane on one        *)
(* buffer; the keys that select, kill and delete, the mouse button over    *)
(* the mode line, and the SelectionRequest and SelectionClear events of    *)
(* other clients.  g.XOut holds the requests made to the X server while    *)
(* the last SelectionRequest was handled.                                  *)
(***************************************************************************)
\* ED_XSelSizeLimit, which ED_XSelInit takes from XMaxRequestSize.
ED_XSelSizeLimit == 2

MaxXSelOps == 4

\* XChangeProperty on the requestor's window, and XSendEvent of the
\* SelectionNotify event whose property field is Property.
XChangeProperty(Property, Type, Data) ==
    [Req |-> "XChangeProperty", Property |-> Property, Type |-> Type, Data |-> Data]

XSendEvent(Property) ==
    [Req |-> "XSendEvent", Property |-> Property, Type |-> "SelectionNotify", Data |-> <<>>]

\* The bytes of Data from the offset Off, at most Len of them.
Chunk(Data, Off, CLen) == SubSeq(Data, Off + 1, Off + CLen)

\* ED_XSelSendINCRData, the loop that transmits the parts.  Deletes is the
\* number of PropertyDelete events the requestor still causes; with none the
\* wait runs into its timeout.
RECURSIVE SendINCRLoop(_, _, _, _, _, _)
SendINCRLoop(Out, Property, Type, Data, LenLeft, Deletes) ==
    IF LenLeft = 0
    THEN [Out |-> Append(Out, XChangeProperty(Property, Type, <<>>)), Ret |-> 1]
    ELSE LET CLen == IF ED_XSelSizeLimit > LenLeft THEN LenLeft ELSE ED_XSelSizeLimit
             Out1 == Append(Out, XChangeProperty(Property, Type,
                                                 Chunk(Data, Len(Data) - LenLeft, CLen)))
         IN  IF Deletes = 0 THEN [Out |-> Out1, Ret |-> 0]
             ELSE SendINCRLoop(Out1, Property, Type, Data, LenLeft - CLen, Deletes - 1)

\* ED_XSelSendINCRData: the requests made, and the value returned.
ED_XSelSendINCRData(Out, Property, Type, Data, Deletes) ==
    Then(Out \o <<XChangeProperty(Property, "INCR", <<Len(Data)>>), XSendEvent(Property)>>,
         LAMBDA Out1 :
    IF Deletes = 0 THEN [Out |-> Out1, Ret |-> 0]
    ELSE SendINCRLoop(Out1, Property, Type, Data, Len(Data), Deletes - 1))

\* ED_XSelSendData.  The statement after the call of ED_XSelSendINCRData is
\* empty (the if ends in a semicolon), so the goto RejectRequest after it is
\* taken whatever the call returned.
ED_XSelSendData(W, Selection, Property0, Type, Deletes) ==
    LET Property == IF Property0 = "None" THEN Type ELSE Property0
        Reject(WW) == [WW EXCEPT !.g.XOut = Append(@, XSendEvent("None"))]
        FromBuf == Selection = "PRIMARY" /\ W.g.PrimaryBufP # NULL
        Owned == IF Selection = "PRIMARY" THEN W.g.PrimaryOwn # 0
                 ELSE IF Selection = "CLIPBOARD" THEN W.g.ClipOwn # 0
                 ELSE TRUE
    IN  IF ~Owned THEN Reject(W)
        ELSE
        \* W1: the gap is at the selection, or the yank index is at the data.
        Then(IF FromBuf
             THEN [W EXCEPT !.bufs[W.g.PrimaryBufP] = ED_BufferPlaceGap(@, W.g.PrimaryPos, 0)]
             ELSE IF Selection \in {"PRIMARY", "CLIPBOARD"}
             THEN [W EXCEPT !.kr = ED_KillRingYank(@, 0)]
             ELSE W,
             LAMBDA W1 :
        Then(IF FromBuf
             THEN MemRead(W1.bufs[W.g.PrimaryBufP].Mem, W1.bufs[W.g.PrimaryBufP].GapEndP,
                          W.g.PrimaryLen)
             ELSE IF Selection \in {"PRIMARY", "CLIPBOARD"}
             THEN KillRingYankData(W1.kr)
             ELSE <<>>,
             LAMBDA Data :
        IF Len(Data) = 0 THEN Reject(W1)
        ELSE IF Len(Data) <= ED_XSelSizeLimit
        THEN [W1 EXCEPT !.g.XOut = @ \o <<XChangeProperty(Property, Type, Data),
                                           XSendEvent(Property)>>]
        ELSE Reject([W1 EXCEPT !.g.XOut =
                        ED_XSelSendINCRData(@, Property, Type, Data, Deletes).Out])))

\* ED_XSelLostPrimary and ED_XSelLostClip
ED_XSelLostPrimary(W) == [W EXCEPT !.g.PrimaryOwn = 0]

ED_XSelLostClip(W) == [W EXCEPT !.g.ClipOwn = 0]

\* ED_XSelHandleEvent.  Ev is the event: its type, its selection, and for a
\* request the target, the property and the PropertyDelete events the
\* requestor will cause.
ED_XSelHandleEvent(W, Ev) ==
    IF Ev.Type = "SelectionClear"
    THEN IF Ev.Selection = "CLIPBOARD" THEN ED_XSelLostClip(W)
         ELSE IF Ev.Selection = "PRIMARY" THEN ED_XSelLostPrimary(W)
         ELSE W
    ELSE IF Ev.Type = "SelectionRequest"
    THEN IF Ev.Target = "TARGETS"
         THEN [W EXCEPT !.g.XOut =
                  <<XChangeProperty(Ev.Property, "ATOM", <<"UTF8_STRING", "TEXT", "STRING">>),
                    XSendEvent(Ev.Property)>>]
         ELSE IF Ev.Target \in {"STRING", "TEXT"}
         THEN ED_XSelSendData([W EXCEPT !.g.XOut = <<>>], Ev.Selection, Ev.Property,
                              "STRING", Ev.Deletes)
         ELSE IF Ev.Target = "UTF8_STRING"
         THEN ED_XSelSendData([W EXCEPT !.g.XOut = <<>>], Ev.Selection, Ev.Property,
                              "UTF8_STRING", Ev.Deletes)
         ELSE [W EXCEPT !.g.XOut = <<XSendEvent("None")>>]
    ELSE W

\* ED_PaneHandleClick for a press of button 1 over the mode line of the pane
\* (Row = RowCount - 1), released before ED_PaneHandleDrag looks.
ED_PaneHandleClick(W, PaneP) ==
    IF PaneP # W.g.CurPaneP
    THEN [W EXCEPT !.g.CmdLastId = "ED_SelectId", !.g.SelPaneP = NULL, !.g.CurPaneP = PaneP]
    ELSE [W EXCEPT !.g.CmdLastId = "ED_SelectId"]

\* ED_FrameHandleClick for that press.
ED_FrameHandleClick(W, PaneP) ==
    LET W1 == IF W.g.QREPPaneP # NULL THEN ED_QREPAbortOut(W, "ED_STR_EchoAbort") ELSE W
        W2 == IF W1.g.ISPaneP # NULL THEN ED_ISAbortOut(W1, "ED_STR_EchoAbort") ELSE W1
        W3 == ED_PaneHandleClick(W2, PaneP)
    IN  IF W.g.QREPPaneP # NULL \/ W1.g.ISPaneP # NULL THEN W3 ELSE [W3 EXCEPT !.g.Echo = ""]

\* ED_PaneHandleRelease
ED_PaneHandleRelease(W, PaneP) ==
    IF W.g.SelPaneP # NULL
    THEN IF W.g.SelMarkPos = W.panes[PaneP].CursorPos
         THEN [W EXCEPT !.g.SelPaneP = NULL]
         ELSE ED_XSelSetPrimary(
                  [W EXCEPT !.bufs[W.panes[PaneP].BufP] = ED_BufferPushMark(@, W.g.SelMarkPos)],
                  PaneP)
    ELSE W

\* ED_FrameHandleRelease of button 1.
ED_FrameHandleRelease(W) == ED_PaneHandleRelease(W, W.g.CurPaneP)

\* ED_CmdSelectAll
ED_CmdSelectAll(W, PaneP) ==
    LET BufP == W.panes[PaneP].BufP
        Pos == W.bufs[BufP].LastPos
    IN  [ED_XSelSetPrimary([W EXCEPT !.g.SelPaneP = PaneP,
                                     !.g.SelMarkPos = Pos,
                                     !.panes[PaneP].CursorPos = 0],
                           PaneP)
            EXCEPT !.bufs[BufP] = ED_BufferPushMark(@, Pos)]

\* The files the editor is started on: an empty one, and "abc".
XSelFiles == {<<>>, <<97, 98, 99>>}

InitXSel ==
    /\ \E Data \in XSelFiles :
          /\ bufs = StartOnFile(Data).bufs
          /\ panes = StartOnFile(Data).panes
    /\ kr = ED_KillRingInit
    /\ g = InitGlobals
    /\ h = InitHistory

\* The key x
XSTypeChar ==
    /\ NormalMode
    /\ InsertKey(<<>>, TypedKey, MaxXSelOps)

\* C-f and S-right
XSGoNextChar ==
    \E Shift \in {0, 1} :
        /\ NormalMode
        /\ Do("ED_CmdGoNextChar", NoArg,
              CommandReturn(ED_CmdGoNextChar(
                  ED_FrameCommandMatch(Cur, NoArg, Shift, "ED_CmdGoNextChar"), g.CurPaneP)),
              MaxXSelOps)

\* C-x h
XSSelectAll ==
    /\ NormalMode
    /\ Do("ED_CmdSelectAll", NoArg,
          CommandReturn(ED_CmdSelectAll(
              ED_FrameCommandMatch(Cur, NoArg, 0, "ED_CmdSelectAll"), g.CurPaneP)),
          MaxXSelOps)

\* C-w
XSKillRegion ==
    /\ NormalMode
    /\ Do("ED_CmdKillRegion", NoArg,
          CommandReturn(ED_CmdKillRegion(
              ED_FrameCommandMatch(Cur, NoArg, 0, "ED_CmdKillRegion"), g.CurPaneP)),
          MaxXSelOps)

\* C-d, alone or after M--
XSDelNextChar ==
    \E Arg \in {NoArg, MetaMinus} :
        /\ NormalMode
        /\ Do("ED_CmdDelNextChar", Arg,
              CommandReturn(ED_CmdDelNextChar(
                  ED_FrameCommandMatch(Cur, Arg, 0, "ED_CmdDelNextChar"), g.CurPaneP)),
              MaxXSelOps)

\* C-/
XSUndo ==
    /\ NormalMode
    /\ Do("ED_CmdUndo", NoArg,
          CommandReturn(ED_CmdUndo(
              ED_FrameCommandMatch(Cur, NoArg, 0, "ED_CmdUndo"), g.CurPaneP)),
          MaxXSelOps)

\* Button 1 goes down over the mode line.
XSClick == Do("ED_FrameHandleClick", NoArg, ED_FrameHandleClick(Cur, g.CurPaneP), MaxXSelOps)

\* Button 1 goes up.
XSRelease == Do("ED_FrameHandleRelease", NoArg, ED_FrameHandleRelease(Cur), MaxXSelOps)

\* Another client takes a selection.
XSClear ==
    \E Sel \in {"PRIMARY", "CLIPBOARD"} :
        Do("SelectionClear", [Type |-> "SelectionClear", Selection |-> Sel],
           ED_XSelHandleEvent(Cur, [Type |-> "SelectionClear", Selection |-> Sel]),
           MaxXSelOps)

\* The requests of other clients: the selection, the target, and how many
\* times the requestor deletes the property before it goes silent.
XSelRequest(Selection, Target, Deletes) ==
    [Type |-> "SelectionRequest", Selection |-> Selection, Target |-> Target,
     Property |-> "P", Deletes |-> Deletes]

XSelRequests ==
    UNION {{XSelRequest(Sel, "TARGETS", 0), XSelRequest(Sel, "COMPOUND_TEXT", 0),
            XSelRequest(Sel, "STRING", 1), XSelRequest(Sel, "STRING", 3),
            XSelRequest(Sel, "UTF8_STRING", 3)} : Sel \in {"PRIMARY", "CLIPBOARD"}}

\* Another client asks for a selection.
XSRequest ==
    \E Ev \in XSelRequests :
        Do("SelectionRequest", Ev, ED_XSelHandleEvent(Cur, Ev), MaxXSelOps)

NextXSel ==
    \/ XSTypeChar \/ XSGoNextChar \/ XSSelectAll \/ XSKillRegion \/ XSDelNextChar
    \/ XSUndo \/ XSClick \/ XSRelease \/ XSClear \/ XSRequest

SpecXSel == InitXSel /\ [][NextXSel]_vars

\* The buffer range that backs the PRIMARY selection lies in a live buffer.
PrimaryInBounds ==
    (g.PrimaryOwn # 0 /\ g.PrimaryBufP # NULL) =>
        /\ g.PrimaryBufP \in DOMAIN bufs
        /\ 0 <= g.PrimaryPos
        /\ g.PrimaryPos + g.PrimaryLen <= bufs[g.PrimaryBufP].LastPos

\* C21: whenever the editor owns the PRIMARY selection and a buffer range backs
\* it, the buffer exists and the range lies within the buffer's current bounds,
\* so that a request for the selection reads only text of that buffer.
C21_PrimaryInBounds == PrimaryInBounds


\* What a selection the editor owns holds in state W: the text of the range
\* that backs PRIMARY, or the first entry of the kill ring with data from the
\* yank index on.
XSelOwned(W, Selection) ==
    IF Selection = "PRIMARY" THEN W.g.PrimaryOwn # 0 ELSE W.g.ClipOwn # 0

XSelHeld(W, Selection) ==
    IF Selection = "PRIMARY" /\ W.g.PrimaryBufP # NULL
    THEN SubSeq(Text(W.bufs[W.g.PrimaryBufP]), W.g.PrimaryPos + 1,
                W.g.PrimaryPos + W.g.PrimaryLen)
    ELSE KillRingYankData(ED_KillRingYank(W.kr, 0))

\* The number of parts Data goes out in, and the writes of the parts.
XSelParts(Data) == (Len(Data) + ED_XSelSizeLimit - 1) \div ED_XSelSizeLimit

XSelPartWrites(Property, Type, Data) ==
    [I \in 1 .. XSelParts(Data) |->
        XChangeProperty(Property, Type,
                        SubSeq(Data, (I - 1) * ED_XSelSizeLimit + 1,
                               IF I * ED_XSelSizeLimit < Len(Data)
                               THEN I * ED_XSelSizeLimit ELSE Len(Data)))]

\* C22: a request for the text of a selection the editor owns, the text not
\* empty, is answered with one property write and the notification when the
\* text is no longer than the chunk threshold; a longer text whose requestor
\* deletes the property after the announcement and after every part is
\* answered with the INCR announcement and the notification, one write per
\* part and a last write of no bytes, and nothing that refuses the request.
C22_RequestAnswered ==
    (/\ h.Cmd = "SelectionRequest"
     /\ h.Arg.Target \in {"STRING", "UTF8_STRING"}
     /\ XSelOwned(h.Pre, h.Arg.Selection)
     /\ (h.Pre.g.PrimaryOwn # 0 /\ h.Pre.g.PrimaryBufP # NULL) =>
            (/\ h.Pre.g.PrimaryBufP \in DOMAIN h.Pre.bufs
             /\ h.Pre.g.PrimaryPos + h.Pre.g.PrimaryLen
                    <= h.Pre.bufs[h.Pre.g.PrimaryBufP].LastPos)
     /\ Len(XSelHeld(h.Pre, h.Arg.Selection)) > 0)
    => LET Data == XSelHeld(h.Pre, h.Arg.Selection)
       IN  IF Len(Data) <= ED_XSelSizeLimit
           THEN g.XOut = <<XChangeProperty(h.Arg.Property, h.Arg.Target, Data),
                           XSendEvent(h.Arg.Property)>>
           ELSE h.Arg.Deletes >= XSelParts(Data) + 1 =>
                    g.XOut = <<XChangeProperty(h.Arg.Property, "INCR", <<Len(Data)>>),
                               XSendEvent(h.Arg.Property)>>
                             \o XSelPartWrites(h.Arg.Property, h.Arg.Target, Data)
                             \o <<XChangeProperty(h.Arg.Property, h.Arg.Target, <<>>)>>


(***************************************************************************)
(* SpecMark: the mark ring and the selection under C-x C-x, C-SPC, the     *)
(* cursor keys and typing, on one buffer in one pane.                      *)
(***************************************************************************)
MaxMarkOps == 5

\* ED_CmdExchMark that, with a selection going, leaves the mark ring alone.
ED_CmdExchMark_KeepsRing(W, PaneP) ==
    LET BufP == W.panes[PaneP].BufP
        CPos == W.panes[PaneP].CursorPos
    IN  IF W.g.SelPaneP = PaneP
        THEN [W EXCEPT !.g.SelMarkPos = CPos,
                       !.panes[PaneP].CursorPos = W.g.SelMarkPos]
        ELSE ED_XSelSetPrimary(
                 [W EXCEPT !.g.SelPaneP = PaneP,
                           !.g.SelMarkPos = CPos,
                           !.panes[PaneP].CursorPos = ED_BufferSwapMarkPos(W.bufs[BufP], CPos),
                           !.bufs[BufP] = ED_BufferSwapMark(@, CPos)],
                 PaneP)

\* ED_CmdExchMark
ED_CmdExchMark(W, PaneP) ==
    LET BufP == W.panes[PaneP].BufP
        CPos == W.panes[PaneP].CursorPos
    IN  IF W.g.SelPaneP = PaneP
        THEN [W EXCEPT !.g.SelMarkPos = CPos,
                       !.bufs[BufP] = ED_BufferSwapMark(@, CPos),
                       !.panes[PaneP].CursorPos = W.g.SelMarkPos]
        ELSE ED_XSelSetPrimary(
                 [W EXCEPT !.g.SelPaneP = PaneP,
                           !.g.SelMarkPos = CPos,
                           !.panes[PaneP].CursorPos = ED_BufferSwapMarkPos(W.bufs[BufP], CPos),
                           !.bufs[BufP] = ED_BufferSwapMark(@, CPos)],
                 PaneP)

InitMark ==
    /\ bufs = StartOnFile(<<97, 98, 99>>).bufs
    /\ panes = StartOnFile(<<97, 98, 99>>).panes
    /\ kr = ED_KillRingInit
    /\ g = InitGlobals
    /\ h = InitHistory

\* C-x C-x
MExchMark ==
    /\ NormalMode
    /\ Do("ED_CmdExchMark", NoArg,
          CommandReturn(ED_CmdExchMark(
              ED_FrameCommandMatch(Cur, NoArg, 0, "ED_CmdExchMark"), g.CurPaneP)),
          MaxMarkOps)

\* C-f and S-right
MGoNextChar ==
    \E Shift \in {0, 1} :
        /\ NormalMode
        /\ Do("ED_CmdGoNextChar", NoArg,
              CommandReturn(ED_CmdGoNextChar(
                  ED_FrameCommandMatch(Cur, NoArg, Shift, "ED_CmdGoNextChar"), g.CurPaneP)),
              MaxMarkOps)

\* M->
MGoBufEnd ==
    /\ NormalMode
    /\ Do("ED_CmdGoBufEnd", NoArg,
          CommandReturn(ED_CmdGoBufEnd(
              ED_FrameCommandMatch(Cur, NoArg, 0, "ED_CmdGoBufEnd"), g.CurPaneP)),
          MaxMarkOps)

\* C-SPC, alone or after C-u
MSetMark ==
    \E Arg \in {NoArg, CtrlU} :
        /\ NormalMode
        /\ Do("ED_CmdSetMark", Arg,
              CommandReturn(ED_CmdSetMark(
                  ED_FrameCommandMatch(Cur, Arg, 0, "ED_CmdSetMark"), g.CurPaneP)),
              MaxMarkOps)

\* The key x
MTypeChar ==
    /\ NormalMode
    /\ InsertKey(<<>>, TypedKey, MaxMarkOps)

NextMark == MExchMark \/ MGoNextChar \/ MGoBufEnd \/ MSetMark \/ MTypeChar

SpecMark == InitMark /\ [][NextMark]_vars

\* The mark of the current pane's buffer in state W: the top of its mark ring.
Mark(W) == ED_BufferGetMarkPos(PaneBuf(W))

\* The last two key sequences were both C-x C-x.
ExchangedTwice == h.Ops >= 2 /\ h.Cmd = "ED_CmdExchMark" /\ h.PCmd = "ED_CmdExchMark"

\* The claim as it stands: C-x C-x twice in succession restores the cursor and
\* the mark, whatever they were.
C23_Original ==
    ExchangedTwice => Cursor(Cur) = Cursor(h.PPre) /\ Mark(Cur) = Mark(h.PPre)


\* Before the first of the two, a selection going in the pane had its mark at
\* the top of the mark ring.
SelectionAtMark(W) == W.g.SelPaneP = W.g.CurPaneP => W.g.SelMarkPos = Mark(W)

\* C23: C-x C-x twice in succession restores the cursor; it restores the mark
\* (the top of the mark ring) too when before the first the cursor was not at
\* the mark and a selection going in the pane had its mark at the top of the
\* ring.
C23_ExchangeTwice ==
    /\ ExchangedTwice => Cursor(Cur) = Cursor(h.PPre)
    /\ (ExchangedTwice /\ Cursor(h.PPre) # Mark(h.PPre) /\ SelectionAtMark(h.PPre))
           => Mark(Cur) = Mark(h.PPre)

\* C-x C-x twice, begun with the cursor at 3 and the mark at 1 and no selection.
C23_Witness ==
    /\ ExchangedTwice
    /\ h.PPre.g.SelPaneP = NULL
    /\ Cursor(h.PPre) = 3
    /\ Mark(h.PPre) = 1
    /\ Cursor(Cur) = 3
    /\ Mark(Cur) = 1

(***************************************************************************)
(* SpecPrefix: the numeric prefix argument, key by key, on an empty        *)
(* buffer.  C-g is the command that ends a prefix.                         *)
(***************************************************************************)
MaxPrefixOps == 9
MaxPrefixStarts == 2
MaxPrefixInsert == 2

PrefixKeys == {"C-u", "M--", "M-2", "-", "0", "2", "C-g"}

InitPrefix ==
    /\ bufs = StartOnFile(<<>>).bufs
    /\ panes = StartOnFile(<<>>).panes
    /\ kr = ED_KillRingInit
    /\ g = InitGlobals
    /\ h = InitHistory

\* How many times ED_FrameHandleKey has ED_PaneInsertChars write the key.
PrefixInsertCount(W, Key) ==
    IF Len(KeyBytes(Key)) = 1 /\ W.g.CmdStr = <<>> THEN W.g.CmdMult
    ELSE IF ED_FrameCommandMatchKey(W, Key).Ret = 1
    THEN ED_FrameCommandMatchKey(W, Key).W.g.CmdMult
    ELSE 0

\* What the command function is called with, when the key reaches one.
PrefixCall(W, Key) ==
    LET M == ED_FrameCommandMatchKey(W, Key)
        Direct == Len(KeyBytes(Key)) = 1 /\ W.g.CmdStr = <<>>
    IN  [FuncP |-> IF Direct THEN "" ELSE M.FuncP,
         Mult |-> M.W.g.CmdMult, Neg |-> M.W.g.CmdMultNeg, Cmd |-> M.W.g.CmdMultCmd]

\* One key.  A key sequence begins only among the first MaxPrefixStarts
\* keys, and no key is written more than MaxPrefixInsert times.
PKey ==
    \E Key \in PrefixKeys :
        /\ g.CmdStr = <<>> => h.Ops < MaxPrefixStarts
        /\ PrefixInsertCount(Cur, Key) <= MaxPrefixInsert
        /\ Do(Key, PrefixCall(Cur, Key), ED_FrameHandleKey(Cur, Key), MaxPrefixOps)

NextPrefix == PKey

SpecPrefix == InitPrefix /\ [][NextPrefix]_vars

\* The value of a digit key, -1 for any other key.
PrefixDigit(Key) ==
    CASE Key = "0" -> 0
      [] Key \in {"2", "M-2"} -> 2
      [] OTHER -> -1

PrefixIdle == [In |-> FALSE, Neg |-> 0, Digits |-> 0, Val |-> 0, Call |-> FALSE]

\* The prefix argument as the keys spell it: S is where the keys before Key
\* left it, Limit the number of digits a prefix may have.
PrefixStep(S, Key, Limit) ==
    IF ~S.In
    THEN CASE Key = "C-u" -> [PrefixIdle EXCEPT !.In = TRUE]
           [] Key = "M--" -> [PrefixIdle EXCEPT !.In = TRUE, !.Neg = 1]
           [] Key = "M-2" -> [PrefixIdle EXCEPT !.In = TRUE, !.Digits = 1, !.Val = 2]
           [] Key = "C-g" -> [PrefixIdle EXCEPT !.Call = TRUE, !.Val = 1]
           [] OTHER -> PrefixIdle
    ELSE IF PrefixDigit(Key) >= 0
    THEN IF S.Digits + 1 > Limit THEN PrefixIdle
         ELSE [S EXCEPT !.Digits = @ + 1, !.Val = @ * 10 + PrefixDigit(Key)]
    ELSE IF Key = "-" /\ S.Digits = 0 /\ S.Neg = 0
    THEN [S EXCEPT !.Neg = 1]
    ELSE IF Key = "C-g"
    THEN [PrefixIdle EXCEPT !.Call = TRUE, !.Neg = S.Neg,
                            !.Val = IF S.Digits # 0 THEN S.Val
                                    ELSE IF S.Neg # 0 THEN 1 ELSE 4]
    ELSE PrefixIdle

RECURSIVE PrefixSpelled(_, _)
PrefixSpelled(Keys, Limit) ==
    IF Keys = <<>> THEN PrefixIdle
    ELSE PrefixStep(PrefixSpelled(SubSeq(Keys, 1, Len(Keys) - 1), Limit),
                    Keys[Len(Keys)], Limit)

Signed(Mult, Neg) == IF Neg # 0 THEN 0 - Mult ELSE Mult

\* The command the last key reached was called with the multiplier S.
PrefixCalledWith(S) ==
    /\ h.Arg.FuncP = "ED_CmdQuitAction"
    /\ Signed(h.Arg.Mult, h.Arg.Neg) = Signed(S.Val, S.Neg)

\* The key sequence is still open and holds the prefix argument S.
PrefixPending(S) ==
    /\ g.CmdStr # <<>>
    /\ g.CmdMultIn # 0
    /\ g.CmdMult = S.Val
    /\ g.CmdMultNeg = S.Neg

\* C24 as stated: C-u and then a command give the multiplier 4, M-- and then
\* a command give -1, the digits typed after the prefix accumulate in
\* decimal however many they are, a minus sign before any digit makes the
\* multiplier negative, and the first key that is not a digit ends the
\* prefix and is matched as the command.
C24_Original ==
    /\ (h.Ops > 0 /\ PrefixSpelled(h.Names, Len(h.Names)).Call)
           => PrefixCalledWith(PrefixSpelled(h.Names, Len(h.Names)))
    /\ (h.Ops > 0 /\ PrefixSpelled(h.Names, Len(h.Names)).In)
           => PrefixPending(PrefixSpelled(h.Names, Len(h.Names)))

\* C24: C-u and then a command give the multiplier 4, M-- and then a command
\* give -1, up to five digits typed after the prefix accumulate in decimal,
\* a minus sign before any digit makes the multiplier negative, and the
\* first key that is not a digit ends the prefix and is matched as the
\* command; a sixth digit ends the key sequence without a command.
C24_PrefixParsed ==
    /\ (h.Ops > 0 /\ PrefixSpelled(h.Names, ED_PrefixDigits).Call)
           => PrefixCalledWith(PrefixSpelled(h.Names, ED_PrefixDigits))
    /\ (h.Ops > 0 /\ PrefixSpelled(h.Names, ED_PrefixDigits).In)
           => PrefixPending(PrefixSpelled(h.Names, ED_PrefixDigits))
    /\ (h.Ops > 0 /\ h.Arg.FuncP = "ED_CmdQuitAction")
           => PrefixSpelled(h.Names, ED_PrefixDigits).Call

\* C-u - 2 0 C-g: the command was called with -20.
C24_Witness ==
    /\ h.Names = <<"C-u", "-", "2", "0", "C-g">>
    /\ h.Arg.FuncP = "ED_CmdQuitAction"
    /\ h.Arg.Mult = 20
    /\ h.Arg.Neg = 1

(***************************************************************************)
(* SpecClean: typing, deleting, saving, unmodify and undo on one buffer    *)
(* in one pane.  The history's Arg holds the text of the most recent       *)
(* clean point: the load, a save or an unmodify.                           *)
(***************************************************************************)
MaxCleanOps == 5

\* ED_BufferDidSave without the Save marker in the undo log.
ED_BufferDidSave_NoMarker(W, BufP) ==
    ED_FrameSetEchoS(
        [W EXCEPT !.bufs[BufP].Flags = (@ \ {"MOD", "FILTER"}) \cup {"CLEANUNDO"}],
        "ED_STR_EchoWrotePath")

\* ED_BufferDidSave
ED_BufferDidSave(W, BufP) ==
    ED_FrameSetEchoS(
        ED_BufferAddUndoBlock(
            [W EXCEPT !.bufs[BufP].Flags = (@ \ {"MOD", "FILTER"}) \cup {"CLEANUNDO"}],
            BufP, 0, 0, {"ADD", "SAVE"}, <<>>),
        "ED_STR_EchoWrotePath")

\* ED_AuxSaveFunc; WriteOk tells whether open and write succeeded.
ED_AuxSaveFunc(W, BufP, WriteOk) ==
    IF ~WriteOk THEN ED_FrameSetEchoS(W, "ED_STR_EchoWriteFailed")
    ELSE ED_BufferDidSave(W, BufP)

\* ED_CmdSaveFile
ED_CmdSaveFile(W, PaneP, WriteOk) ==
    LET BufP == W.panes[PaneP].BufP
    IN  IF "NOFILE" \in W.bufs[BufP].Flags THEN ED_FrameQRAsk(W, "EDCB_WriteFileFunc")
        ELSE IF "MOD" \notin W.bufs[BufP].Flags
        THEN ED_FrameSetEchoS(W, "ED_STR_EchoNoChangeSave")
        ELSE IF "FILTER" \in W.bufs[BufP].Flags THEN ED_FrameQRAsk(W, "EDCB_SaveFunc")
        ELSE ED_AuxSaveFunc(W, BufP, WriteOk)

InitClean ==
    \E Data \in Files :
        /\ bufs = StartOnFile(Data).bufs
        /\ panes = StartOnFile(Data).panes
        /\ kr = ED_KillRingInit
        /\ g = InitGlobals
        /\ h = [InitHistory EXCEPT !.Arg = Data]

\* The text of the most recent clean point once the command has led to W2:
\* the text of W2 if the command saved or unmodified the buffer.
CleanPoint(Name, W2) ==
    IF \/ Name = "ED_CmdSaveFile" /\ W2.g.Echo = "ED_STR_EchoWrotePath"
       \/ Name = "ED_CmdModBuffer" /\ W2.g.Echo = "ED_STR_EchoModFlagClear"
    THEN Text(PaneBuf(W2))
    ELSE h.Arg

\* The command that leads to W2.
DoClean(Name, W2) == Do(Name, CleanPoint(Name, W2), W2, MaxCleanOps)

\* x
CTypeChar ==
    /\ NormalMode
    /\ DoClean("ED_PaneInsertChars", HandleInsertKey(Cur, FALSE, NoArg, TypedKey))

\* C-d
CDelNextChar ==
    /\ NormalMode
    /\ DoClean("ED_CmdDelNextChar",
               CommandReturn(ED_CmdDelNextChar(
                   ED_FrameCommandMatch(Cur, NoArg, 0, "ED_CmdDelNextChar"), g.CurPaneP)))

\* C-b
CGoPrevChar ==
    /\ NormalMode
    /\ DoClean("ED_CmdGoPrevChar",
               CommandReturn(ED_CmdGoPrevChar(
                   ED_FrameCommandMatch(Cur, NoArg, 0, "ED_CmdGoPrevChar"), g.CurPaneP)))

\* C-x C-s; the write succeeds or fails.
CSaveFile ==
    \E WriteOk \in BOOLEAN :
        /\ NormalMode
        /\ DoClean("ED_CmdSaveFile",
                   CommandReturn(ED_CmdSaveFile(
                       ED_FrameCommandMatch(Cur, NoArg, 0, "ED_CmdSaveFile"),
                       g.CurPaneP, WriteOk)))

\* M-~, alone or after C-u
CModBuffer ==
    \E Arg \in {NoArg, CtrlU} :
        /\ NormalMode
        /\ DoClean("ED_CmdModBuffer",
                   CommandReturn(ED_CmdModBuffer(
                       ED_FrameCommandMatch(Cur, Arg, 0, "ED_CmdModBuffer"), g.CurPaneP)))

\* C-/
CUndo ==
    /\ NormalMode
    /\ DoClean("ED_CmdUndo",
               CommandReturn(ED_CmdUndo(
                   ED_FrameCommandMatch(Cur, NoArg, 0, "ED_CmdUndo"), g.CurPaneP)))

NextClean == CTypeChar \/ CDelNextChar \/ CGoPrevChar \/ CSaveFile \/ CModBuffer \/ CUndo

SpecClean == InitClean /\ [][NextClean]_vars

\* C25: whenever the modified bit of the buffer is clear, its text is byte
\* for byte the text of the most recent clean point (load, save, unmodify).
C25_CleanMeansSaved ==
    "MOD" \notin CurBuf.Flags => Text(CurBuf) = h.Arg

\* x, save, x, undo on the empty file: the buffer is unmodified and holds the
\* x that was saved.
C25_Witness ==
    /\ h.Names = <<"ED_PaneInsertChars", "ED_CmdSaveFile", "ED_PaneInsertChars", "ED_CmdUndo">>
    /\ "MOD" \notin CurBuf.Flags
    /\ "MOD" \in PaneBuf(h.Pre).Flags
    /\ Text(PaneBuf(h.Pre)) = TypedKey \o TypedKey
    /\ Text(CurBuf) = TypedKey
    /\ h.Arg = TypedKey

(***************************************************************************)
(* C26.  The mark of the selection.                                        *)
(***************************************************************************)
\* C26: after every command an active selection (a selection pane whose
\* cursor is not at the mark) has its mark within [0, length] of the buffer
\* of the selection's pane.
C26_SelMarkInBuffer ==
    (g.SelPaneP # NULL /\ g.SelMarkPos # panes[g.SelPaneP].CursorPos)
        => /\ 0 <= g.SelMarkPos
           /\ g.SelMarkPos <= bufs[panes[g.SelPaneP].BufP].LastPos

(***************************************************************************)
(* SpecUndoFocus: two frames, each on a buffer of its own, with typing,    *)
(* the left arrow, undo and the focus events of the X server.  The editor  *)
(* was started on the file abc; then C-x 5 2 made the second frame, which  *)
(* got the focus, and C-x b with the answer "new" gave it a new buffer.    *)
(* A run is not followed beyond an undo that replayed a block of another   *)
(* buffer.                                                                 *)
(***************************************************************************)
MaxUndoFocusOps == 7

\* The second frame was made and has the focus.
StartSecondFrame ==
    FocusIn(FocusOut(CommandReturn(ED_CmdNewFrame(
                         ED_FrameCommandMatch(StartPanes, NoArg, 0, "ED_CmdNewFrame"),
                         StartPanes.g.Frames[1].CurPaneP)),
                     1),
            2)

\* The second frame shows the new buffer.
StartTwoBuffers ==
    QRHandleBufAnswer(
        CommandReturn(ED_CmdSwitchBuffer(
            ED_FrameCommandMatch(KeyToFrame(StartSecondFrame, 2), NoArg, 0, "ED_CmdSwitchBuffer"),
            StartSecondFrame.g.Frames[2].CurPaneP)),
        "new")

InitUndoFocus ==
    /\ bufs = StartTwoBuffers.bufs
    /\ panes = StartTwoBuffers.panes
    /\ kr = StartTwoBuffers.kr
    /\ g = StartTwoBuffers.g
    /\ h = InitHistory

\* The buffer the undo read position points into, NULL if it points nowhere.
UndoReadBuf(W) ==
    IF W.g.UndoSlabP = NULL \/ W.g.UndoBlock = 0 \/ SlabWhere(W, W.g.UndoSlabP) = {} THEN NULL
    ELSE (CHOOSE p \in SlabWhere(W, W.g.UndoSlabP) : TRUE)[1]

\* The last command was an undo that replayed a block of another buffer
\* than the one of its pane.
ReplayedForeignBlock ==
    /\ h.Cmd = "ED_CmdUndo"
    /\ UndoReadBuf(Cur) # NULL
    /\ UndoReadBuf(Cur) # panes[g.CurPaneP].BufP

\* x in the frame that has the focus.
UFTypeChar ==
    \E FP \in FocusFrames :
        /\ NormalMode /\ ~ReplayedForeignBlock
        /\ Do("ED_PaneInsertChars", FP,
              HandleInsertKey(KeyToFrame(Cur, FP), FALSE, NoArg, TypedKey), MaxUndoFocusOps)

\* The left arrow in the frame that has the focus.
UFGoPrevChar ==
    \E FP \in FocusFrames :
        /\ NormalMode /\ ~ReplayedForeignBlock
        /\ Do("ED_CmdGoPrevChar", FP,
              CommandReturn(ED_CmdGoPrevChar(
                  ED_FrameCommandMatch(KeyToFrame(Cur, FP), NoArg, 0, "ED_CmdGoPrevChar"),
                  g.Frames[FP].CurPaneP)),
              MaxUndoFocusOps)

\* C-/ in the frame that has the focus.
UFUndo ==
    \E FP \in FocusFrames :
        /\ NormalMode /\ ~ReplayedForeignBlock
        /\ Do("ED_CmdUndo", FP,
              CommandReturn(ED_CmdUndo(
                  ED_FrameCommandMatch(KeyToFrame(Cur, FP), NoArg, 0, "ED_CmdUndo"),
                  g.Frames[FP].CurPaneP)),
              MaxUndoFocusOps)

\* The window of frame FP loses the focus.
UFFocusOut ==
    \E FP \in FocusFrames :
        /\ ~ReplayedForeignBlock
        /\ Do("FocusOut", FP, FocusOut(Cur, FP), MaxUndoFocusOps)

\* The window of frame FP gets the focus, which no window has.
UFFocusIn ==
    \E FP \in DOMAIN g.Frames :
        /\ FocusFrames = {}
        /\ Do("FocusIn", FP, FocusIn(Cur, FP), MaxUndoFocusOps)

NextUndoFocus == UFTypeChar \/ UFGoPrevChar \/ UFUndo \/ UFFocusOut \/ UFFocusIn

SpecUndoFocus == InitUndoFocus /\ [][NextUndoFocus]_vars

\* C27: an undo executed in a pane replays only undo blocks recorded in the
\* buffer of that pane: after an undo the undo read position points to no
\* block of another buffer.
C27_UndoOwnBuffer == ~ReplayedForeignBlock

(***************************************************************************)
(* SpecYank: kills, yank and yank-pop on the file "a b".  The history's    *)
(* Arg holds the text and the cursor position before the last yank.        *)
(***************************************************************************)
MaxYankOps == 6

\* The file: a b
AB == <<97, 32, 98>>

InitYank ==
    /\ bufs = StartOnFile(AB).bufs
    /\ panes = StartOnFile(AB).panes
    /\ kr = ED_KillRingInit
    /\ g = InitGlobals
    /\ h = [InitHistory EXCEPT !.Arg = [Text |-> AB, Pos |-> 0]]

\* The command that leads to W2; a yank starts from the present state.
DoYank(Name, W2) ==
    Do(Name, IF Name = "ED_CmdYank" THEN [Text |-> Text(CurBuf), Pos |-> Cursor(Cur)] ELSE h.Arg,
       W2, MaxYankOps)

\* M-d
YDelNextWord ==
    /\ NormalMode
    /\ DoYank("ED_CmdDelNextWord",
              CommandReturn(ED_CmdDelNextWord(
                  ED_FrameCommandMatch(Cur, NoArg, 0, "ED_CmdDelNextWord"), g.CurPaneP)))

\* C-f
YGoNextChar ==
    /\ NormalMode
    /\ DoYank("ED_CmdGoNextChar",
              CommandReturn(ED_CmdGoNextChar(
                  ED_FrameCommandMatch(Cur, NoArg, 0, "ED_CmdGoNextChar"), g.CurPaneP)))

\* C-y; the owner of CLIPBOARD, if it is not the editor, sends XData.
YYank ==
    \E XData \in XSelData :
        /\ NormalMode
        /\ g.ClipOwn = 0 \/ XData = <<>>
        /\ DoYank("ED_CmdYank",
                  CommandReturn(ED_CmdYank(
                      ED_FrameCommandMatch(Cur, NoArg, 0, "ED_CmdYank"), g.CurPaneP, XData)))

\* M-y
YYankPop ==
    /\ NormalMode
    /\ DoYank("ED_CmdYankPop",
              CommandReturn(ED_CmdYankPop(
                  ED_FrameCommandMatch(Cur, NoArg, 0, "ED_CmdYankPop"), g.CurPaneP)))

NextYank == YDelNextWord \/ YGoNextChar \/ YYank \/ YYankPop

SpecYank == InitYank /\ [][NextYank]_vars

\* The commands so far end with a yank and N yank-pops.
YankRun(N) ==
    /\ Len(h.Names) > N
    /\ h.Names[Len(h.Names) - N] = "ED_CmdYank"
    /\ \A j \in Len(h.Names) - N + 1 .. Len(h.Names) : h.Names[j] = "ED_CmdYankPop"

\* The text T with the bytes E put in at position Pos.
WithEntry(T, Pos, E) == SubSeq(T, 1, Pos) \o E \o SubSeq(T, Pos + 1, Len(T))

\* The entry of the kill ring K next older than entry I that holds text.
RECURSIVE OlderEntry(_, _, _)
OlderEntry(K, I, Trips) ==
    IF K.EltArr[KillWrap(I - 1)].Len # 0 \/ Trips >= ED_KILLRINGCOUNT THEN KillWrap(I - 1)
    ELSE OlderEntry(K, KillWrap(I - 1), Trips + 1)

\* The entry the previous yank or yank-pop put in: the one at the yank index,
\* or the top one if what was put in was pasted from the CLIPBOARD of another
\* client and has been added to the ring since.
LastYanked == IF kr.EltArr = h.Pre.kr.EltArr THEN h.Pre.kr.YankI ELSE kr.TopI

\* C28: after a yank and any number of yank-pops directly after it, the text
\* is the text before the yank with one entry of the kill ring put in at the
\* cursor, and that entry is the next older one than the entry the previous
\* yank or yank-pop put in; a yank-pop that follows neither a yank nor a
\* yank-pop changes nothing.
C28_YankPopRun ==
    /\ \A N \in 1 .. MaxYankOps :
           YankRun(N) =>
               /\ Text(CurBuf) = WithEntry(h.Arg.Text, h.Arg.Pos, KillRingYankData(kr))
               /\ Cursor(Cur) = h.Arg.Pos + Len(KillRingYankData(kr))
               /\ kr.YankI = OlderEntry(kr, LastYanked, 1)
    /\ (h.Cmd = "ED_CmdYankPop" /\ h.PCmd \notin {"ED_CmdYank", "ED_CmdYankPop"})
           => /\ bufs = h.Pre.bufs
              /\ panes = h.Pre.panes
              /\ kr = h.Pre.kr

(***************************************************************************)
(* SpecISBack: backward incremental search on the empty file and on the    *)
(* file "foo bar".  No run is followed beyond a scan that left the buffer. *)
(***************************************************************************)
MaxISBackOps == 6

\* The file: foo bar
FooBar == <<102, 111, 111, 32, 98, 97, 114>>

ISBackFiles == {<<>>, FooBar}

InitISBack ==
    \E Data \in ISBackFiles :
        /\ bufs = StartOnFile(Data).bufs
        /\ panes = StartOnFile(Data).panes
        /\ kr = ED_KillRingInit
        /\ g = InitGlobals
        /\ h = InitHistory

\* The keys typed during a backward search.
ISBackKeys == {"f", "o", "C-r", "C-s", "Return"}

\* The last scan began below position 0.
ScanOutside == g.ISMatchPos = ISOutside

\* C-r
BISearchBack ==
    /\ NormalMode
    /\ ~ScanOutside
    /\ Do("ED_CmdISearchBack", NoArg,
          CommandReturn(ED_CmdISearchBack(
              ED_FrameCommandMatch(Cur, NoArg, 0, "ED_CmdISearchBack"), g.CurPaneP)),
          MaxISBackOps)

\* M->
BGoBufEnd ==
    /\ NormalMode
    /\ ~ScanOutside
    /\ Do("ED_CmdGoBufEnd", NoArg,
          CommandReturn(ED_CmdGoBufEnd(
              ED_FrameCommandMatch(Cur, NoArg, 0, "ED_CmdGoBufEnd"), g.CurPaneP)),
          MaxISBackOps)

\* A key during the search.
BISKey ==
    \E Key \in ISBackKeys :
        /\ g.QRPaneP = NULL
        /\ g.QREPPaneP = NULL
        /\ g.ISPaneP # NULL
        /\ ~ScanOutside
        /\ Do("ED_ISHandleChars", Key, ED_ISHandleChars(Cur, Key, ISKeyStr(Key)).W,
              MaxISBackOps)

NextISBack == BISearchBack \/ BGoBufEnd \/ BISKey

SpecISBack == InitISBack /\ [][NextISBack]_vars

(* C29.  Backward search and position 0. *)
\* C29: on "foo bar" with the cursor at the end, a backward search for "foo"
\* reports the match at position 0: after C-r and the keys f, o, o the search
\* has not failed, its match is at 0 and the cursor stands there.
C29_BackwardFindsStart ==
    (/\ h.Names = <<"ED_CmdGoBufEnd", "ED_CmdISearchBack", "ED_ISHandleChars",
                    "ED_ISHandleChars", "ED_ISHandleChars">>
     /\ Text(CurBuf) = FooBar
     /\ g.ISStr = <<102, 111, 111>>)
    => /\ g.ISDoWrap = 0
       /\ g.ISMatchPos = 0
       /\ Cursor(Cur) = 0

(* C30.  The positions a scan examines. *)
\* C30: every scan of an incremental search, the wrapped retry included,
\* ends and examines only positions from 0 to the buffer's length, also
\* when the search string is longer than the buffer: no key of a search
\* leads to a scan that leaves the buffer.
C30_ScanInBuffer ==
    h.Cmd = "ED_ISHandleChars" => ~ScanOutside

(***************************************************************************)
(* SpecQRWrap: an incremental search followed by a query-replace, on the   *)
(* file "ab".                                                              *)
(***************************************************************************)
MaxQRWrapOps == 7

InitQRWrap ==
    /\ bufs = StartOnFile(<<97, 98>>).bufs
    /\ panes = StartOnFile(<<97, 98>>).panes
    /\ kr = ED_KillRingInit
    /\ g = InitGlobals
    /\ h = InitHistory

\* What is typed in answer to the two questions of query-replace: "a" or "b".
QRWrapAnswers == {<<97>>, <<98>>}

\* C-s
QWISearch ==
    /\ NormalMode
    /\ Do("ED_CmdISearch", NoArg,
          CommandReturn(ED_CmdISearch(
              ED_FrameCommandMatch(Cur, NoArg, 0, "ED_CmdISearch"), g.CurPaneP)),
          MaxQRWrapOps)

\* a, C-s or Return, in an incremental search.
QWISKey ==
    \E Key \in {"a", "C-s", "Return"} :
        /\ g.QRPaneP = NULL
        /\ g.QREPPaneP = NULL
        /\ g.ISPaneP # NULL
        /\ Do("ED_ISHandleChars", Key, ED_ISHandleChars(Cur, Key, ISKeyStr(Key)).W,
              MaxQRWrapOps)

\* M-%
QWQueryReplace ==
    /\ NormalMode
    /\ Do("ED_CmdQueryReplace", NoArg,
          CommandReturn(ED_CmdQueryReplace(
              ED_FrameCommandMatch(Cur, NoArg, 0, "ED_CmdQueryReplace"), g.CurPaneP)),
          MaxQRWrapOps)

\* An answer and Enter, in the query mode.
QWAnswer ==
    \E Resp \in QRWrapAnswers :
        /\ g.QRPaneP # NULL
        /\ Do("ED_FrameQRHandleChars", Resp, ED_FrameQRHandleChars(Cur, Resp), MaxQRWrapOps)

\* y or n, in a query-replace session.
QWKey ==
    \E SymChar \in {"y", "n"} :
        /\ g.QRPaneP = NULL
        /\ g.QREPPaneP # NULL
        /\ Do("ED_QREPHandleChars", SymChar, ED_QREPHandleChars(Cur, SymChar), MaxQRWrapOps)

NextQRWrap == QWISearch \/ QWISKey \/ QWQueryReplace \/ QWAnswer \/ QWKey

SpecQRWrap == InitQRWrap /\ [][NextQRWrap]_vars

(* C31.  Where a query-replace begins. *)
\* C31: a query-replace offers only matches that start at or after the
\* position the cursor had when it was started, whatever an incremental
\* search before it left behind: when the second answer starts the session,
\* the match offered is not before the cursor of that moment, and no later
\* match of the session is.
C31_MatchesFromCursor ==
    /\ (/\ h.Cmd = "ED_FrameQRHandleChars"
        /\ h.Pre.g.QREPPaneP = NULL
        /\ g.QREPPaneP # NULL)
       => g.ISMatchPos >= Cursor(h.Pre)
    /\ g.QREPPaneP # NULL => g.ISMatchPos >= g.ISOriginPos

(***************************************************************************)
(* SpecClose: frames on the file abc, typing, C-x 5 2, the focus events    *)
(* and the close box of a window (the ClientMessage of the window manager  *)
(* that carries WM_DELETE_WINDOW).                                         *)
(***************************************************************************)
MaxCloseOps == 5

ED_BUFNOFILEFLAG == 1

\* The test of ED_FrameKillAsk for a buffer with a file, as the compiler
\* reads it: (! Flags) & ED_BUFNOFILEFLAG.  ! Flags is 1 when no flag at all
\* is set and 0 otherwise, and the flag is the lowest bit.
NotFlagsAndNoFile(Flags) == (IF Flags = {} THEN 1 ELSE 0) % (2 * ED_BUFNOFILEFLAG)

\* ED_FrameKillAsk: the loop over the panes of the frame.
FrameKillAskNeedSave(W, FrameP) ==
    /\ Len(W.g.FrameList) = 1
    /\ \E PaneP \in FramePanes(W, FrameP) :
          /\ "MOD" \in W.bufs[W.panes[PaneP].BufP].Flags
          /\ NotFlagsAndNoFile(W.bufs[W.panes[PaneP].BufP].Flags) # 0

\* ED_FrameKillAsk
ED_FrameKillAsk(W, FrameP) ==
    IF FrameKillAskNeedSave(W, FrameP)
    THEN ED_FrameQRAsk(KeyToFrame(W, FrameP), "ED_AuxQRKillFunc")
    ELSE ED_FrameKill(W, FrameP)

\* ED_FrameHandleEvent, the case ClientMessage with WM_DELETE_WINDOW.
ClientMessage(W, FP) ==
    LET W1 == IF W.g.QRPaneP # NULL THEN ED_FrameQRAbortOut(W, "ED_STR_EchoAbort") ELSE W
        W2 == IF W1.g.QREPPaneP # NULL THEN ED_QREPAbortOut(W1, "ED_STR_EchoAbort") ELSE W1
        W3 == IF W2.g.ISPaneP # NULL THEN ED_ISAbortOut(W2, "ED_STR_EchoAbort") ELSE W2
    IN  ED_FrameKillAsk(W3, FP)

InitClose ==
    /\ bufs = StartInFrame(Abc, PaneRows).bufs
    /\ panes = StartInFrame(Abc, PaneRows).panes
    /\ kr = ED_KillRingInit
    /\ g = StartPanes.g
    /\ h = InitHistory

\* x typed in the frame that has the focus.
CLTypeChar ==
    \E FP \in FocusFrames :
        /\ NormalMode /\ NoDying
        /\ Do("ED_PaneInsertChars", FP,
              HandleInsertKey(KeyToFrame(Cur, FP), FALSE, NoArg, TypedKey), MaxCloseOps)

\* C-x 5 2
CLNewFrame ==
    \E FP \in FocusFrames :
        /\ NormalMode /\ NoDying
        /\ g.FrameN < MaxFrames
        /\ Do("ED_CmdNewFrame", FP,
              CommandReturn(ED_CmdNewFrame(
                  ED_FrameCommandMatch(KeyToFrame(Cur, FP), NoArg, 0, "ED_CmdNewFrame"),
                  g.Frames[FP].CurPaneP)),
              MaxCloseOps)

\* The close box of the window of frame FP.
CLClientMessage ==
    \E FP \in DOMAIN g.Frames :
        /\ NoDying
        /\ Do("ClientMessage", FP, ClientMessage(Cur, FP), MaxCloseOps)

\* The window of frame FP, which ED_FrameKill destroyed, is gone.
CLDestroyNotify ==
    \E FP \in DOMAIN g.Frames :
        /\ g.Frames[FP].NoWin = 1
        /\ Do("ED_FrameWinDestroyed", FP, ED_FrameWinDestroyed(Cur, FP), MaxCloseOps)

\* The window of frame FP loses the focus.
CLFocusOut ==
    \E FP \in FocusFrames : Do("FocusOut", FP, FocusOut(Cur, FP), MaxCloseOps)

\* The window of frame FP gets the focus, which no window has.
CLFocusIn ==
    \E FP \in DOMAIN g.Frames :
        /\ FocusFrames = {}
        /\ g.Frames[FP].NoWin = 0
        /\ Do("FocusIn", FP, FocusIn(Cur, FP), MaxCloseOps)

NextClose ==
    \/ CLTypeChar \/ CLNewFrame \/ CLClientMessage \/ CLDestroyNotify
    \/ CLFocusOut \/ CLFocusIn

SpecClose == InitClose /\ [][NextClose]_vars

(* C32.  The close box and unsaved changes. *)
\* Frame FrameP of W shows, in one of its panes, a modified buffer that has
\* a file.
ShowsUnsavedFile(W, FrameP) ==
    \E PaneP \in FramePanes(W, FrameP) :
        /\ "MOD" \in W.bufs[W.panes[PaneP].BufP].Flags
        /\ "NOFILE" \notin W.bufs[W.panes[PaneP].BufP].Flags

\* C32: closing the only frame while one of its panes shows a modified
\* buffer with a file asks before the frame is destroyed, and the frame is
\* destroyed without a question only when no pane shows such a buffer or
\* other frames remain.
C32_AsksBeforeClose ==
    h.Cmd = "ClientMessage"
    => IF Len(h.Pre.g.FrameList) = 1 /\ ShowsUnsavedFile(h.Pre, h.Arg)
       THEN /\ g.Frames[h.Arg].NoWin = 0
            /\ g.QRPaneP # NULL
       ELSE g.Frames[h.Arg].NoWin = 1

(* C33.  The prefix argument after an error of the dispatcher. *)
\* The key before the last one ended a key sequence with an error of the
\* dispatcher: no binding matches, or the prefix argument has too many digits.
DispatchErrorBefore ==
    /\ h.PCmd = "ED_FrameHandleKey"
    /\ h.PPre.g.CmdStr # <<>>
    /\ h.Pre.g.CmdStr = <<>>
    /\ h.Pre.g.Echo \in {"ED_STR_EchoCmdMatchFail", "ED_STR_EchoCmdBadNum"}
    /\ h.Pre.g.QRPaneP = NULL /\ h.Pre.g.QREPPaneP = NULL /\ h.Pre.g.ISPaneP = NULL

\* C33: after an error of the dispatcher no command was called and the
\* prefix argument is gone: the key that reported the error changed no text,
\* and the key after it counts once, so that a plain 5 puts one 5 in the
\* buffer, at the cursor.
C33_ErrorDropsPrefix ==
    DispatchErrorBefore
    => /\ Text(PaneBuf(h.Pre)) = Text(PaneBuf(h.PPre))
       /\ h.Pre.g.CmdLastId = h.PPre.g.CmdLastId
       /\ (h.Cmd = "ED_FrameHandleKey" /\ h.Arg = "5")
          => Text(CurBuf) = SubSeq(Text(PaneBuf(h.Pre)), 1, Cursor(h.Pre)) \o <<53>>
                            \o SubSeq(Text(PaneBuf(h.Pre)), Cursor(h.Pre) + 1,
                                      Len(Text(PaneBuf(h.Pre))))

(***************************************************************************)
(* SpecShrink: one frame on the file abc whose window is ShrinkRows text   *)
(* rows high, C-x 2, the drag of a mode line, and the window resized to    *)
(* any of the heights of ShrinkWinRows.  The least height the program asks *)
(* the window manager for is a hint, which the window manager may ignore.  *)
(* The history's Arg holds, after a resize, the passes the compressing     *)
(* loop made.                                                              *)
(***************************************************************************)
MaxShrinkOps == 5

ShrinkRows == 21

\* The heights the window is given, in text rows.
ShrinkWinRows == {9, 10, 11, 15, 20, 26}

StartShrink == FocusIn(StartInFrame(Abc, ShrinkRows), 1)

InitShrink ==
    /\ bufs = StartInFrame(Abc, ShrinkRows).bufs
    /\ panes = StartInFrame(Abc, ShrinkRows).panes
    /\ kr = ED_KillRingInit
    /\ g = StartShrink.g
    /\ h = [InitHistory EXCEPT !.Arg = [Passes |-> 0, DivZero |-> FALSE, Panes |-> 1]]

\* The last resize divided by zero.
DividedByZero == h.Arg.DivZero

\* The step that leads to W2; Passes tells what the compressing loop did.
DoShrink(Name, Passes, W2) ==
    Do(Name, [Passes |-> Passes.Passes, DivZero |-> Passes.DivZero,
              Panes |-> g.Frames[1].PaneCount], W2, MaxShrinkOps)

\* C-x 2
SSplitPane ==
    /\ NormalMode /\ ~DividedByZero
    /\ DoShrink("ED_CmdSplitPane", [Passes |-> 0, DivZero |-> FALSE],
                CommandReturn(ED_CmdSplitPane(
                    ED_FrameCommandMatch(KeyToFrame(Cur, 1), NoArg, 0, "ED_CmdSplitPane"),
                    g.Frames[1].CurPaneP)))

\* The boundary under pane PaneP is moved by DeltaRow rows.
SResize ==
    \E PaneP \in DOMAIN panes, DeltaRow \in DragRows :
        /\ ~DividedByZero
        /\ DoShrink("ED_PaneResize", [Passes |-> 0, DivZero |-> FALSE],
                    ED_PaneResize(Cur, PaneP, DeltaRow).W)

\* The window is resized to NewRowCount rows.
SConfigureNotify ==
    \E NewRowCount \in ShrinkWinRows :
        /\ ~DividedByZero
        /\ NewRowCount # g.Frames[1].RowCount
        /\ DoShrink("ED_FrameSetSize", FrameSetSizePasses(Cur, 1, NewRowCount),
                    ConfigureNotify(Cur, 1, NewRowCount))

NextShrink == SSplitPane \/ SResize \/ SConfigureNotify

SpecShrink == InitShrink /\ [][NextShrink]_vars

(* C34.  The passes of the rescale. *)
\* C34: when the height of a frame shrinks, the loop that rescales its panes
\* ends after at most as many passes as the frame has panes, whatever the
\* sizes of the panes and the new height, also when every pane is at the
\* least height already.
C34_RescaleEnds ==
    (h.Cmd = "ED_FrameSetSize" /\ g.Frames[1].RowCount < h.Pre.g.Frames[1].RowCount)
    => /\ ~h.Arg.DivZero
       /\ h.Arg.Passes <= h.Arg.Panes


(***************************************************************************)
(* C35: which undo records coalesce.                                       *)
(***************************************************************************)
\* The last command changed the last block of the undo log in place: the
\* blocks before it are the same and no block was added.
MergedIntoLast ==
    /\ h.Ops > 0
    /\ Blocks(h.Pre) # <<>>
    /\ Len(Blocks(Cur)) = Len(Blocks(h.Pre))
    /\ Blocks(Cur) # Blocks(h.Pre)
    /\ SubSeq(Blocks(Cur), 1, Len(Blocks(Cur)) - 1)
         = SubSeq(Blocks(h.Pre), 1, Len(Blocks(h.Pre)) - 1)

\* The last command was a yank that put text in: its record is ADD | CHUNK.
YankedText == h.Cmd = "ED_CmdYank" /\ Text(CurBuf) # Text(PaneBuf(h.Pre))

\* C35: a record with the CHUNK flag (that of a yank) is never merged into an
\* earlier block; a record is never merged into a CHUNK block or a Save
\* marker; a block that took a merge is an Add or a Del of at most
\* ED_UNDO_DATASIZE bytes.
C35_ChunkStandsAlone ==
    /\ (h.Ops > 0 /\ YankedText) => ~MergedIntoLast
    /\ MergedIntoLast =>
          /\ LastBlock(h.Pre).Flags \cap {"CHUNK", "SAVE"} = {}
          /\ LastBlock(Cur).DataLen <= ED_UNDO_DATASIZE


(***************************************************************************)
(* SpecSplit: C-x h, C-w and C-/ on files long enough for a kill to meet   *)
(* the end of the first undo slab.                                         *)
(***************************************************************************)
MaxSplitOps == 6

\* The lengths of the two files.  After the kill of HalfSlabLen bytes and
\* its undo the slab has room for more than ED_UNDO_DATASIZE bytes; after
\* the kill of FullSlabLen bytes and its undo it has room for fewer.
HalfSlabLen == 260
FullSlabLen == 420

\* A file of L bytes, the letters a to z in turn.
LongFile(L) == [i \in 1 .. L |-> 97 + (i % 26)]

SplitFiles == {LongFile(HalfSlabLen), LongFile(FullSlabLen)}

InitSplit ==
    /\ \E Data \in SplitFiles :
          /\ bufs = StartOnFile(Data).bufs
          /\ panes = StartOnFile(Data).panes
    /\ kr = ED_KillRingInit
    /\ g = StartOnFile(<<>>).g
    /\ h = InitHistory

\* C-x h, pressed when no range is selected
SPSelectAll ==
    /\ NormalMode
    /\ ~HasSel(Cur)
    /\ Do("ED_CmdSelectAll", NoArg,
          CommandReturn(ED_CmdSelectAll(
              ED_FrameCommandMatch(Cur, NoArg, 0, "ED_CmdSelectAll"), g.CurPaneP)),
          MaxSplitOps)

\* C-w, pressed when a range of the text is selected
SPKillRegion ==
    /\ NormalMode
    /\ HasSel(Cur)
    /\ SelEnd(Cur) <= CurBuf.LastPos
    /\ Do("ED_CmdKillRegion", NoArg,
          CommandReturn(ED_CmdKillRegion(
              ED_FrameCommandMatch(Cur, NoArg, 0, "ED_CmdKillRegion"), g.CurPaneP)),
          MaxSplitOps)

\* C-/
SPUndo ==
    /\ NormalMode
    /\ Do("ED_CmdUndo", NoArg,
          CommandReturn(ED_CmdUndo(
              ED_FrameCommandMatch(Cur, NoArg, 0, "ED_CmdUndo"), g.CurPaneP)),
          MaxSplitOps)

NextSplit == SPSelectAll \/ SPKillRegion \/ SPUndo

SpecSplit == InitSplit /\ [][NextSplit]_vars


\* ED_BufferAllocUndoBlock: the data bytes the next block can hold in the
\* last slab of buffer B.
SlabRoom(B) ==
    LET USP == LastUSP(B)
        UBP == USP.Blocks[USP.LastUBlock]
        Size == IF "DEL" \in UBP.Flags
                THEN ((SizeofUBlockRecord + UBP.DataLen) \div 4) * 4
                ELSE SizeofUBlockRecord
    IN  IF USP.LastUBlock = 0
        THEN (USP.SlabSize - SizeofUSlabRecord) - OffsetofUBlockData
        ELSE (USP.SlabSize - (USP.LastUBlock + Size)) - OffsetofUBlockData

\* The bytes of the range selected in state W.
SelBytes(W) == SubSeq(Text(PaneBuf(W)), SelStart(W) + 1, SelEnd(W))

\* The command that led from state W0 to state W1 was a C-w on a range of
\* the text whose bytes did not fit in the last undo slab of W0.
KillDidNotFit(W0, W1, Name) ==
    /\ Name = "ED_CmdKillRegion"
    /\ HasSel(W0)
    /\ SelEnd(W0) <= PaneBuf(W0).LastPos
    /\ PaneBuf(W0).USlabs # <<>>
    /\ Len(SelBytes(W0)) > SlabRoom(PaneBuf(W0))
    /\ Text(PaneBuf(W1)) # Text(PaneBuf(W0))

\* The log of W1 ends with a Del block that fills the last slab of W0 and a
\* CHAIN Del block on a new slab, which together hold the bytes killed in W0.
SplitRecorded(W0, W1) ==
    LET n == Len(PaneBuf(W0).USlabs)
        Slabs == PaneBuf(W1).USlabs
        Old == Slabs[n]
        New == Slabs[n + 1]
        A == Old.Blocks[Old.LastUBlock]
        B == New.Blocks[New.LastUBlock]
    IN  /\ Len(Slabs) = n + 1
        /\ Old.LastUBlock # LastUSP(PaneBuf(W0)).LastUBlock
        /\ New.LastUBlock = SizeofUSlabRecord
        /\ "DEL" \in A.Flags /\ "CHAIN" \notin A.Flags
        /\ {"DEL", "CHAIN"} \subseteq B.Flags
        /\ Old.LastUBlock + OffsetofUBlockData + A.DataLen = Old.SlabSize
        /\ A.DataPos = SelStart(W0) /\ B.DataPos = SelStart(W0)
        /\ A.Data \o B.Data = SelBytes(W0)

\* The log of W1 ends with one Del block on a new slab, which holds the
\* bytes killed in W0; the last slab of W0 is as it was.
WholeOnNewSlab(W0, W1) ==
    LET n == Len(PaneBuf(W0).USlabs)
        Slabs == PaneBuf(W1).USlabs
        New == Slabs[n + 1]
        B == New.Blocks[New.LastUBlock]
    IN  /\ Len(Slabs) = n + 1
        /\ Slabs[n] = LastUSP(PaneBuf(W0))
        /\ New.LastUBlock = SizeofUSlabRecord
        /\ "DEL" \in B.Flags /\ "CHAIN" \notin B.Flags
        /\ B.DataPos = SelStart(W0)
        /\ B.Data = SelBytes(W0)

\* C36 as stated: a deletion whose data does not fit in the current undo slab
\* is recorded as a Del block that fills the slab and a CHAIN Del block with
\* the rest on a new slab, and one undo right after it gives back the text
\* byte for byte.
C36_SplitDelAlways ==
    h.Ops > 0 =>
        /\ KillDidNotFit(h.Pre, Cur, h.Cmd) => SplitRecorded(h.Pre, Cur)
        /\ (h.Ops > 1 /\ h.Cmd = "ED_CmdUndo" /\ KillDidNotFit(h.PPre, h.Pre, h.PCmd))
           => Text(CurBuf) = Text(PaneBuf(h.PPre))

\* C36, amended: the deletion is split in that way when the slab has room
\* for at least ED_UNDO_DATASIZE data bytes; with less room the deletion is
\* one Del block on a new slab.  In both cases one undo right after it gives
\* back the text byte for byte.
C36_SplitDel ==
    h.Ops > 0 =>
        /\ KillDidNotFit(h.Pre, Cur, h.Cmd) =>
              IF SlabRoom(PaneBuf(h.Pre)) >= ED_UNDO_DATASIZE
              THEN SplitRecorded(h.Pre, Cur)
              ELSE WholeOnNewSlab(h.Pre, Cur)
        /\ (h.Ops > 1 /\ h.Cmd = "ED_CmdUndo" /\ KillDidNotFit(h.PPre, h.Pre, h.PCmd))
           => Text(CurBuf) = Text(PaneBuf(h.PPre))

\* A split deletion was undone.
C36_SplitDelWitness ==
    /\ h.Ops > 1
    /\ h.Cmd = "ED_CmdUndo"
    /\ KillDidNotFit(h.PPre, h.Pre, h.PCmd)
    /\ SplitRecorded(h.PPre, h.Pre)
    /\ Text(CurBuf) = Text(PaneBuf(h.PPre))


(***************************************************************************)
(* SpecGC: rounds of C-x h, C-d and C-/ that fill the undo log with one    *)
(* slab a round, and then C-/ over and over, which walks the read head     *)
(* back while the log grows until ED_BufferGCUndoSlabs drops slabs.        *)
(***************************************************************************)
MaxGCOps == 46
GCRounds == 9

\* The lengths of the files, a little less than a slab: the text of the
\* first rounds is recorded in one block, and every later round adds a slab.
GCFileLens == {440, 444, 448}

InitGC ==
    /\ \E L \in GCFileLens :
          /\ bufs = StartOnFile(LongFile(L)).bufs
          /\ panes = StartOnFile(LongFile(L)).panes
    /\ kr = ED_KillRingInit
    /\ g = StartOnFile(<<>>).g
    /\ h = InitHistory

\* The rounds that fill the log are going on.
GCFilling == h.Ops < 3 * GCRounds

\* C-x h, pressed in a round when the text is there
GSelectAll ==
    /\ NormalMode
    /\ GCFilling
    /\ ~HasSel(Cur)
    /\ CurBuf.LastPos > 0
    /\ Do("ED_CmdSelectAll", NoArg,
          CommandReturn(ED_CmdSelectAll(
              ED_FrameCommandMatch(Cur, NoArg, 0, "ED_CmdSelectAll"), g.CurPaneP)),
          MaxGCOps)

\* C-d, pressed when a range of the text is selected: the range goes
GDelNextChar ==
    /\ NormalMode
    /\ HasSel(Cur)
    /\ SelEnd(Cur) <= CurBuf.LastPos
    /\ Do("ED_CmdDelNextChar", NoArg,
          CommandReturn(ED_CmdDelNextChar(
              ED_FrameCommandMatch(Cur, NoArg, 0, "ED_CmdDelNextChar"), g.CurPaneP)),
          MaxGCOps)

\* C-/, pressed in a round after the text went, and after the rounds
GUndo ==
    /\ NormalMode
    /\ GCFilling => (~HasSel(Cur) /\ CurBuf.LastPos = 0)
    /\ Do("ED_CmdUndo", NoArg,
          CommandReturn(ED_CmdUndo(
              ED_FrameCommandMatch(Cur, NoArg, 0, "ED_CmdUndo"), g.CurPaneP)),
          MaxGCOps)

NextGC == GSelectAll \/ GDelNextChar \/ GUndo

SpecGC == InitGC /\ [][NextGC]_vars

\* The read head of undo is in a slab that is no longer in any log.
HeadInDroppedSlab(W) == W.g.UndoSlabP # NULL /\ SlabWhere(W, W.g.UndoSlabP) = {}

PoppedMark == h.Ops > 0 /\ h.Cmd = "ED_CmdSetMark" /\ h.Arg = CtrlU

\* The ring index moved back by one slot, and no slot changed.
RingMovedBack(W0, W1) ==
    /\ PaneBuf(W1).MarkRingIndex = MarkWrap(PaneBuf(W0).MarkRingIndex - 1)
    /\ PaneBuf(W1).MarkRingArr = PaneBuf(W0).MarkRingArr

\* The claim as it stands: the pop moves the index back by one slot and
\* returns the position in the slot that is the top after the move.
C39_PopReturnsNowTop ==
    PoppedMark => RingMovedBack(h.Pre, Cur) /\ Cursor(Cur) = Mark(Cur)

\* C39: the pop of the mark ring returns the position in the slot that was the
\* top before the move, and moves the ring index back by one slot.
C39_PopReturnsOldTop ==
    PoppedMark => RingMovedBack(h.Pre, Cur) /\ Cursor(Cur) = Mark(h.Pre)

\* A pop with different positions in the old and the new top slot.
C39_PopReturnsOldTopWitness ==
    /\ PoppedMark
    /\ Mark(h.Pre) # Mark(Cur)
    /\ Cursor(Cur) = Mark(h.Pre)
    /\ Cursor(h.Pre) # Mark(h.Pre)
(***************************************************************************)
(* C-x 1 on a frame with several panes: one frame on the file abc, split   *)
(* with C-x 2, the current pane changed with C-x o, and the other panes    *)
(* killed with C-x 1.                                                      *)
(***************************************************************************)
MaxOnlyOps == 6

\* C-x 2
OSplitPane ==
    \E FP \in FocusFrames :
        /\ NormalMode
        /\ Do("ED_CmdSplitPane", [PaneP |-> g.Frames[FP].CurPaneP, FrameP |-> FP, Freed |-> {}],
              CommandReturn(ED_CmdSplitPane(
                  ED_FrameCommandMatch(KeyToFrame(Cur, FP), NoArg, 0, "ED_CmdSplitPane"),
                  g.Frames[FP].CurPaneP)),
              MaxOnlyOps)

\* C-x o
OGoNextPane ==
    \E FP \in FocusFrames :
        /\ NormalMode
        /\ Do("ED_CmdGoNextPane", [PaneP |-> g.Frames[FP].CurPaneP, FrameP |-> FP, Freed |-> {}],
              CommandReturn(ED_CmdGoNextPane(
                  ED_FrameCommandMatch(KeyToFrame(Cur, FP), NoArg, 0, "ED_CmdGoNextPane"),
                  g.Frames[FP].CurPaneP)),
              MaxOnlyOps)

\* C-x 1.  The record of the step keeps the panes the loop read after they
\* were freed.
OKillOtherPanes ==
    \E FP \in FocusFrames :
        /\ NormalMode
        /\ Do("ED_CmdKillOtherPanes",
              [PaneP |-> g.Frames[FP].CurPaneP, FrameP |-> FP,
               Freed |-> IF g.Frames[FP].PaneCount > 1
                         THEN KillOtherPanesLoop(
                                  ED_FrameCommandMatch(KeyToFrame(Cur, FP), NoArg, 0,
                                                       "ED_CmdKillOtherPanes"),
                                  g.Frames[FP].CurPaneP, Head(g.Frames[FP].Panes), {}).Freed
                         ELSE {}],
              CommandReturn(ED_CmdKillOtherPanes(
                  ED_FrameCommandMatch(KeyToFrame(Cur, FP), NoArg, 0, "ED_CmdKillOtherPanes"),
                  g.Frames[FP].CurPaneP)),
              MaxOnlyOps)

NextOnly == OSplitPane \/ OGoNextPane \/ OKillOtherPanes

SpecOnly == InitPanes /\ [][NextOnly]_vars

\* The last key sequence was C-x 1 on a frame with several panes.
KilledOthers ==
    /\ h.Ops > 0
    /\ h.Cmd = "ED_CmdKillOtherPanes"
    /\ h.Pre.g.Frames[h.Arg.FrameP].PaneCount > 1

\* The pane PaneP is the only pane of frame FP and its current pane, and has
\* all the rows of the frame but the echo line.
OnlyPane(W, FP, PaneP) ==
    /\ W.g.Frames[FP].Panes = <<PaneP>>
    /\ W.g.Frames[FP].PaneCount = 1
    /\ W.g.Frames[FP].CurPaneP = PaneP
    /\ DOMAIN W.panes = {PaneP}
    /\ W.panes[PaneP].TopRow = 0
    /\ W.panes[PaneP].RowCount = W.g.Frames[FP].RowCount - 1

\* C40: C-x 1 on a frame with several panes leaves exactly one pane, the pane
\* it was invoked on, which is the current pane and has all the rows of the
\* frame except the echo line, and the command reads no pane after it
\* destroyed it.
C40_KillOtherPanes ==
    KilledOthers => OnlyPane(Cur, h.Arg.FrameP, h.Arg.PaneP) /\ h.Arg.Freed = {}

\* The part of C40 about the panes that are left.
KillOtherPanesLayout ==
    KilledOthers => OnlyPane(Cur, h.Arg.FrameP, h.Arg.PaneP)

(***************************************************************************)
(* SpecSeq: key sequences of several keys, key by key, in one frame on the *)
(* file abc: C-g, C-x 0, C-x 2 and C-x 5 0, with or without a prefix       *)
(* argument, and the sequences of these keys that no binding matches.      *)
(***************************************************************************)
MaxSeqOps == 6

SeqKeys == {"C-u", "C-x", "C-g", "-", "0", "2", "5"}

\* The functions the sequences of SeqKeys are followed into.
SeqFuncs == {"ED_CmdQuitAction", "ED_CmdKillPane", "ED_CmdSplitPane", "ED_CmdDeleteFrame"}

\* ED_FrameCommandMatch, the call (*FBindP->FuncP)(FrameP->CurPaneP).
CallFuncP(W, FuncP, PaneP) ==
    CASE FuncP = "ED_CmdQuitAction" -> ED_CmdQuitAction(W, PaneP)
      [] FuncP = "ED_CmdKillPane" -> ED_CmdKillPane(W, PaneP)
      [] FuncP = "ED_CmdSplitPane" -> ED_CmdSplitPane(W, PaneP)
      [] FuncP = "ED_CmdDeleteFrame" -> ED_CmdDeleteFrame(W, PaneP)

\* ED_FrameHandleKey outside the query mode, a query-replace session and a
\* search, with the call of the function the sequence is bound to.
SeqHandleKey(W, Key) ==
    LET M == ED_FrameCommandMatchKey(W, Key)
    IN  IF (Len(KeyBytes(Key)) = 1 /\ W.g.CmdStr = <<>>) \/ M.Ret # -1
        THEN ED_FrameHandleKey(W, Key)
        ELSE CommandReturn(CallFuncP(M.W, M.FuncP, M.W.g.CurPaneP))

\* One key.  A key sequence begins only among the first MaxPrefixStarts
\* keys, and no key is written more than MaxPrefixInsert times.
SKey ==
    \E Key \in SeqKeys, FP \in FocusFrames :
        /\ g.QRPaneP = NULL /\ g.QREPPaneP = NULL /\ g.ISPaneP = NULL
        /\ g.CmdStr = <<>> => h.Ops < MaxPrefixStarts
        /\ PrefixInsertCount(KeyToFrame(Cur, FP), Key) <= MaxPrefixInsert
        /\ PrefixCall(KeyToFrame(Cur, FP), Key).FuncP \in SeqFuncs \cup {""}
        /\ Do(Key, PrefixCall(KeyToFrame(Cur, FP), Key),
              SeqHandleKey(KeyToFrame(Cur, FP), Key), MaxSeqOps)

NextSeq == SKey

SpecSeq == InitPanes /\ [][NextSeq]_vars

\* The keys of the sequence in progress that follow the prefix argument.
Typed(W) == SubSeq(W.g.CmdStr, W.g.CmdMultLen + 1, Len(W.g.CmdStr))

\* The key is matched against the bindings: it neither begins nor goes on
\* with a prefix argument, and is not a character typed into the text.
CommandKey(W, Key) ==
    IF W.g.CmdStr = <<>> THEN Len(KeyBytes(Key)) > 1 /\ Key # "C-u"
    ELSE W.g.CmdMultIn # 0 => Len(KeyBytes(Key)) > 1

\* The prefix argument of the sequence in progress.
PendingPrefix(W) ==
    IF W.g.CmdStr = <<>> THEN [Mult |-> 1, Neg |-> 0]
    ELSE IF W.g.CmdMultIn # 0 /\ W.g.CmdMultDigit = 0
    THEN [Mult |-> IF W.g.CmdMultNeg # 0 THEN 1 ELSE 4, Neg |-> W.g.CmdMultNeg]
    ELSE [Mult |-> W.g.CmdMult, Neg |-> W.g.CmdMultNeg]

\* The bindings the bytes S begin without being all of them, and the
\* functions bound to S.
LongerBindings(S) ==
    {i \in DOMAIN Bindings : Len(S) < Len(Bindings[i].KeyStr)
                             /\ SubSeq(Bindings[i].KeyStr, 1, Len(S)) = S}

BoundTo(S) == {Bindings[i].FuncP : i \in {j \in DOMAIN Bindings : Bindings[j].KeyStr = S}}

\* The last key called no function and changed neither text nor panes.
InvokedNothing ==
    /\ h.Arg.FuncP = ""
    /\ bufs = h.Pre.bufs
    /\ panes = h.Pre.panes
    /\ kr = h.Pre.kr

\* C38: a key that makes the sequence in progress a strict prefix of some
\* binding invokes no command and keeps the sequence and the prefix
\* argument; a key that completes a binding invokes exactly the function
\* bound to it, with that prefix argument; a key that makes a sequence no
\* binding can match reports the undefined-command error, ends the sequence
\* and invokes nothing.
C38_PartialMatchKeepsState ==
    (h.Ops > 0 /\ CommandKey(h.Pre, h.Cmd)) =>
        LET S == Typed(h.Pre) \o KeyBytes(h.Cmd)
        IN  /\ LongerBindings(S) # {}
                => /\ InvokedNothing
                   /\ Typed(Cur) = S
                   /\ g.CmdMultIn = 0
                   /\ PendingPrefix(Cur) = PendingPrefix(h.Pre)
                   /\ g.Echo # "ED_STR_EchoCmdMatchFail"
            /\ BoundTo(S) # {}
                => /\ BoundTo(S) = {h.Arg.FuncP}
                   /\ [Mult |-> h.Arg.Mult, Neg |-> h.Arg.Neg] = PendingPrefix(h.Pre)
                   /\ g.CmdStr = <<>>
            /\ (LongerBindings(S) = {} /\ BoundTo(S) = {})
                => /\ InvokedNothing
                   /\ g.Echo = "ED_STR_EchoCmdMatchFail"
                   /\ g.CmdStr = <<>>

\* C-u 2 C-x 5 0: after two partial matches the sequence reached
\* ED_CmdDeleteFrame with the prefix argument 2.
C38_PartialMatchKeepsStateWitness ==
    /\ h.Names = <<"C-u", "2", "C-x", "5", "0">>
    /\ h.Arg.FuncP = "ED_CmdDeleteFrame"
    /\ h.Arg.Mult = 2
    /\ h.Pre.g.CmdStr = <<22, 117, 50, 22, 120, 53>>
    /\ h.PPre.g.CmdStr = <<22, 117, 50, 22, 120>>
    /\ g.CmdStr = <<>>

====
